---- MODULE Spec2Model ----
\* A model of mx_jvmci.py (the mx extension that assembles and deploys the
\* JVMCI-enabled JDK 8 trees): the process-wide VM selection and its scoped
\* overrides, the JDK tree builder get_jvmci_jdk_dir, the artifact deployment
\* (copyToJdk, _installDistInJdks, the JDKDeployedDist classes), the patch of
\* the 'release' file, and the task of the native build (needsBuild,
\* buildForbidden) with buildvms, and the options of the command line at
\* start-up (mx_post_parse_cmd_line).
EXTENDS Naturals, Sequences, FiniteSets, TLC

VARIABLES
    _vm,          \* global _vm: the VM run by 'vm' and built by 'build'
    _vmbuild,     \* global _vmbuild: the active build kind
    _jvmciMode,   \* global _jvmciMode: the active JVMCIMode object (by its jvmciMode)
    scopes,       \* the context-manager objects of the 'with' blocks being executed, innermost last
    exc,          \* TRUE while an error raised in a block is propagating
    initial,      \* the selection the process started with (ghost)
    last,         \* the operation performed last, and what it was given (ghost)
    mxos,         \* mx.get_os(): the platform the process runs on
    symlinkJar,   \* whether the environment sets SYMLINK_GRAAL_JAR=true
    revision,     \* the revision of the working tree ("unknown" without version control)
    fs,           \* the file system: path -> file (directories are the prefixes of paths)
    result,       \* the last call of an operation and how it ended
    proc,         \* the call of copyToJdk in progress: where it is and its local variables
    seen          \* what a reader of the target path of that call read last

selVars == <<_vm, _vmbuild, _jvmciMode, scopes, exc, initial, last>>
fsVars == <<mxos, symlinkJar, revision, fs, result>>
copyVars == <<proc, seen>>
vars == <<selVars, fsVars, copyVars>>

\* ---------------------------------------------------------------- bounds

\* The deepest nesting of 'with' blocks the model explores.
MaxDepth == 2

\* The number of times one distribution is built anew.
MaxVersion == 1

\* The number of blocks in which the content of a file is copied.
Chunks == 2

\* The most pieces between the quotes of a SOURCE line of a release file.
MaxPairs == 3

\* The latest modification time of a source file (the output of the native
\* build was written at time 1).
MaxTime == 2

\* ------------------------------------------------- the variant model

None == "None"

\* _vmChoices.keys()
_vmChoices == {"server", "client", "original"}

\* _jvmciModes: mode -> the VM flags activated by it
_jvmciModes ==
    [hosted |-> <<"-XX:+UnlockExperimentalVMOptions", "-XX:+EnableJVMCI", "-XX:-UseJVMCICompiler">>,
     jit |-> <<"-XX:+UnlockExperimentalVMOptions", "-XX:+EnableJVMCI", "-XX:+UseJVMCICompiler">>,
     disabled |-> <<"-XX:+UnlockExperimentalVMOptions", "-XX:-EnableJVMCI">>]

\* _vmAliases: legacy VM names
_vmAliases == [jvmci |-> "server", graal |-> "server"]

\* _vmbuildChoices, in order: the first is the default
_vmbuildChoices == <<"product", "fastdebug", "debug", "optimized">>

BuildKinds == {_vmbuildChoices[i] : i \in DOMAIN _vmbuildChoices}

\* The active selection as a triple.
Selection == [vm |-> _vm, build |-> _vmbuild, mode |-> _jvmciMode]

\* ------------------------------------------------- the scoped overrides

\* JVMCIMode.__init__: the object, not yet entered.
JVMCIMode__init__(jvmciMode) ==
    [cls |-> "JVMCIMode", jvmciMode |-> jvmciMode, vmArgs |-> _jvmciModes[jvmciMode],
     previousMode |-> None]

\* JVMCIMode.__enter__: the object after entry (previousMode recorded); the
\* active mode becomes the object itself.
JVMCIMode__enter__(self) == [self EXCEPT !.previousMode = _jvmciMode]

\* JVMCIMode.__exit__ leaving the active mode as it is.
JVMCIModeExitKeeps(self, exc_type) == _jvmciMode

\* JVMCIMode.__exit__: the mode active after the exit. exc_type is not read.
JVMCIMode__exit__(self, exc_type) == self.previousMode

\* VM.__init__: the legacy name 'jvmci' selects server and carries a JVMCIMode('jit');
\* a missing vm or build is taken from the selection active at construction.
VM__init__(vm, build) ==
    IF vm = "jvmci"
    THEN [cls |-> "VM", vm |-> "server",
          build |-> IF build # None THEN build ELSE _vmbuild,
          jvmciMode |-> "jit",
          previousVm |-> None, previousBuild |-> None, previousMode |-> None]
    ELSE [cls |-> "VM", vm |-> IF vm # None THEN vm ELSE _vm,
          build |-> IF build # None THEN build ELSE _vmbuild,
          jvmciMode |-> None,
          previousVm |-> None, previousBuild |-> None, previousMode |-> None]

\* VM.__enter__: the object after entry. previousMode is the field of the
\* JVMCIMode object the VM object owns (self.jvmciMode.previousMode).
VM__enter__(self) ==
    [self EXCEPT !.previousVm = _vm,
                 !.previousBuild = _vmbuild,
                 !.previousMode = IF self.jvmciMode # None THEN _jvmciMode ELSE None]

\* VM.__exit__: the selection after the exit.
VMExitNoBuild(self, exc_type) ==
    [vm |-> self.previousVm,
     build |-> _vmbuild,
     mode |-> IF self.jvmciMode # None
              THEN JVMCIMode__exit__([jvmciMode |-> self.jvmciMode,
                                      previousMode |-> self.previousMode], exc_type)
              ELSE _jvmciMode]

VM__exit__(self, exc_type) ==
    [vm |-> self.previousVm,
     build |-> self.previousBuild,
     mode |-> IF self.jvmciMode # None
              THEN JVMCIMode__exit__([jvmciMode |-> self.jvmciMode,
                                      previousMode |-> self.previousMode], exc_type)
              ELSE _jvmciMode]

\* What a scope records for the checks: the selection just before its entry.
Frame(obj, entry) == [obj |-> obj, entry |-> entry]

Top == scopes[Len(scopes)]

\* with VM(vm, build): - construction and entry
EnterVM(vm, build) ==
    /\ ~exc
    /\ Len(scopes) < MaxDepth
    /\ LET obj == VM__enter__(VM__init__(vm, build)) IN
        /\ _vm' = obj.vm
        /\ _vmbuild' = obj.build
        /\ _jvmciMode' = IF obj.jvmciMode # None THEN obj.jvmciMode ELSE _jvmciMode
        /\ scopes' = Append(scopes, Frame(obj, Selection))
        /\ last' = [op |-> "VM.__enter__", entry |-> Selection, exc |-> FALSE,
                    alias |-> obj.jvmciMode # None]
    /\ UNCHANGED <<exc, initial, fsVars, copyVars>>

\* with JVMCIMode(mode): - construction and entry
EnterJVMCIMode(mode) ==
    /\ ~exc
    /\ Len(scopes) < MaxDepth
    /\ LET obj == JVMCIMode__enter__(JVMCIMode__init__(mode)) IN
        /\ _jvmciMode' = obj.jvmciMode
        /\ scopes' = Append(scopes, Frame(obj, Selection))
        /\ last' = [op |-> "JVMCIMode.__enter__", entry |-> Selection, exc |-> FALSE, alias |-> FALSE]
    /\ UNCHANGED <<_vm, _vmbuild, exc, initial, fsVars, copyVars>>

\* The block of the innermost scope raises an error.
Raise ==
    /\ ~exc
    /\ scopes # <<>>
    /\ exc' = TRUE
    /\ last' = [op |-> "raise", entry |-> Selection, exc |-> TRUE, alias |-> FALSE]
    /\ UNCHANGED <<_vm, _vmbuild, _jvmciMode, scopes, initial, fsVars, copyVars>>

\* The end of the innermost 'with' block of a VM object, reached normally or by
\* the error: __exit__ runs on both paths, and the error keeps propagating.
ExitVM ==
    /\ scopes # <<>>
    /\ Top.obj.cls = "VM"
    /\ LET sel == VM__exit__(Top.obj, exc) IN
        /\ _vm' = sel.vm
        /\ _vmbuild' = sel.build
        /\ _jvmciMode' = sel.mode
    /\ scopes' = SubSeq(scopes, 1, Len(scopes) - 1)
    /\ last' = [op |-> "VM.__exit__", entry |-> Top.entry, exc |-> exc,
                alias |-> Top.obj.jvmciMode # None]
    /\ UNCHANGED <<exc, initial, fsVars, copyVars>>

ExitJVMCIMode ==
    /\ scopes # <<>>
    /\ Top.obj.cls = "JVMCIMode"
    /\ _jvmciMode' = JVMCIMode__exit__(Top.obj, exc)
    /\ scopes' = SubSeq(scopes, 1, Len(scopes) - 1)
    /\ last' = [op |-> "JVMCIMode.__exit__", entry |-> Top.entry, exc |-> exc, alias |-> FALSE]
    /\ UNCHANGED <<_vm, _vmbuild, exc, initial, fsVars, copyVars>>

\* The error is handled by code enclosing the scopes it has left.
Caught ==
    /\ exc
    /\ exc' = FALSE
    /\ last' = [op |-> "except", entry |-> Selection, exc |-> FALSE, alias |-> FALSE]
    /\ UNCHANGED <<_vm, _vmbuild, _jvmciMode, scopes, initial, fsVars, copyVars>>

\* ------------------------------------------------- the platform paths

\* mx.get_arch()
arch == "amd64"

\* platform.mac_ver()[0] != '': the process runs on macOS
mac == mxos = "darwin"

\* relativeVmLibDirInJdk: the directory, relative to a JDK, that holds the
\* server, client and original VM directories.
relativeVmLibDirInJdk ==
    IF mxos = "darwin" THEN <<"jre", "lib">>
    ELSE IF mxos = "windows" \/ mxos = "cygwin" THEN <<"jre", "bin">>
    ELSE <<"jre", "lib", arch>>

\* vmLibDirInJdk
vmLibDirInJdk(jdkDir) == jdkDir \o relativeVmLibDirInJdk

\* getVmCfgInJdk: the jvm.cfg file of a JDK.
getVmCfgInJdk(jdkDir) ==
    IF mxos = "windows" \/ mxos = "cygwin"
    THEN jdkDir \o <<"jre", "lib", arch, "jvm.cfg">>
    ELSE vmLibDirInJdk(jdkDir) \o <<"jvm.cfg">>

\* _jdksDir: the directory of the JDK trees, <root>/<prefix><version>/<os>-<arch>,
\* a fixed path for one process.
_jdksDir == <<"jdks", mxos \o "-" \o arch>>

\* _jdkDir: the tree of one build kind (or of any entry of _jdksDir).
_jdkDir(jdks, build) ==
    IF mac THEN jdks \o <<build, "Contents", "Home">> ELSE jdks \o <<build>>

\* get_jvmci_bootstrap_jdk().home: on macOS it ends with Contents/Home.
BootstrapHome ==
    IF mac THEN <<"java_home", "Contents", "Home">> ELSE <<"java_home">>

\* _lib: mx.add_lib_suffix(mx.add_lib_prefix(l))
_lib(l) ==
    IF mxos = "windows" THEN l \o ".dll"
    ELSE IF mxos = "darwin" THEN "lib" \o l \o ".dylib"
    ELSE "lib" \o l \o ".so"

\* _lib_dbg: mx.add_debug_lib_suffix(mx.add_lib_prefix(l))
_lib_dbg(l) ==
    IF mxos = "windows" THEN l \o ".pdb"
    ELSE IF mxos = "darwin" THEN "lib" \o l \o ".dylib.dSYM"
    ELSE "lib" \o l \o ".debuginfo"

\* ------------------------------------------------- the file system

IsPrefix(p, q) == Len(p) <= Len(q) /\ SubSeq(q, 1, Len(p)) = p

\* A regular file that is not text (a library, a jar, a header), by its content:
\* id is <<what it is, the version of the build that made it>>.
File(id) == [t |-> "file", data |-> id]
\* A text file: its lines in order, each [toks, nl]: the tokens of the line (words,
\* and the separators " ", ":" and the double quote on their own) and its line
\* terminator as Python reads it ("" for a last line that has none).
Text(lines) == [t |-> "text", data |-> lines]
\* A symbolic link to a path.
Link(to) == [t |-> "link", data |-> to]
\* A tar archive: its name, the version of the build that made it and its member names.
Tar(name, v, members) == [t |-> "tar", data |-> <<name, v, members>>]

Line(toks) == [toks |-> toks, nl |-> "\n"]

IsSpace(tok) == tok \in {" ", "\t", "\r", "\n"}

\* str.strip() of a line: leading and trailing white space (the terminator
\* included) removed.
RECURSIVE lstrip(_)
lstrip(toks) ==
    IF toks # <<>> /\ IsSpace(toks[1]) THEN lstrip(Tail(toks)) ELSE toks

RECURSIVE rstrip(_)
rstrip(toks) ==
    IF toks # <<>> /\ IsSpace(toks[Len(toks)])
    THEN rstrip(SubSeq(toks, 1, Len(toks) - 1)) ELSE toks

strip(line) == rstrip(lstrip(line.toks))

\* The file that results from writing lines one after the other, as its lines
\* are read again: a line without terminator runs into the one written next.
RECURSIVE WrittenLines(_)
WrittenLines(lines) ==
    IF Len(lines) <= 1 THEN lines
    ELSE LET rest == WrittenLines(Tail(lines)) IN
         IF lines[1].nl = ""
         THEN <<[toks |-> lines[1].toks \o rest[1].toks, nl |-> rest[1].nl]>> \o Tail(rest)
         ELSE <<lines[1]>> \o rest

\* os.path.lexists: something is at the path (a file, a link, a directory).
lexists(f, p) == \E q \in DOMAIN f : IsPrefix(p, q)

\* os.path.islink
islink(f, p) == p \in DOMAIN f /\ f[p].t = "link"

\* os.path.realpath: a link is resolved to what it names.
realpath(f, p) == IF islink(f, p) THEN f[p].data ELSE p

\* os.path.exists: follows a link, so a dangling link does not exist.
exists(f, p) == IF islink(f, p) THEN lexists(f, f[p].data) ELSE lexists(f, p)

\* The paths of the file system under a directory.
Under(f, dir) == {q \in DOMAIN f : IsPrefix(dir, q)}

\* The part of the file system under a directory: the content of a tree.
TreeOf(f, dir) == [q \in Under(f, dir) |-> f[q]]

\* A path moved from under src to under dst.
Rebase(q, src, dst) == dst \o SubSeq(q, Len(src) + 1, Len(q))

\* Writing one file (created or replaced).
WriteFile(f, p, c) == [q \in DOMAIN f \cup {p} |-> IF q = p THEN c ELSE f[q]]

\* os.remove
RemoveFile(f, p) == [q \in DOMAIN f \ {p} |-> f[q]]

\* shutil.copytree(src, dst): every file under src is copied under dst.
copytree(f, src, dst) ==
    LET new == {Rebase(q, src, dst) : q \in Under(f, src)} IN
    [p \in DOMAIN f \cup new |->
        IF p \in new THEN f[Rebase(p, dst, src)] ELSE f[p]]

\* shutil.move(src, dst) of a directory src to a path dst that does not exist.
movedir(f, src, dst) ==
    LET new == {Rebase(q, src, dst) : q \in Under(f, src)} IN
    [p \in (DOMAIN f \ Under(f, src)) \cup new |->
        IF p \in new THEN f[Rebase(p, dst, src)] ELSE f[p]]

\* os.listdir: the names of the entries of a directory.
listdir(f, dir) == {q[Len(dir) + 1] : q \in {x \in Under(f, dir) : Len(x) > Len(dir)}}

\* line.strip() of the lines of a text file.
StrippedLines(f, p) == {strip(f[p].data[i]) : i \in DOMAIN f[p].data}

\* The jvm.cfg line that declares a VM: '-' + vm + ' KNOWN'
KnownLine(vm) == <<"-" \o vm, " ", "KNOWN">>

\* ------------------------------------------------- the deployed distributions

\* jdkDeployedDists: the distributions deployed into a JDK, in order.
jdkDeployedDists ==
    <<[cls |-> "LibJDKDeployedDist", name |-> "JVMCI_SERVICES"],
      [cls |-> "JvmciJDKDeployedDist", name |-> "JVMCI_API"],
      [cls |-> "JvmciJDKDeployedDist", name |-> "JVMCI_HOTSPOT"],
      [cls |-> "HotSpotVMJDKDeployedDist", name |-> "JVM_<vmbuild>_<vm>"]>>

\* JDKDeployedDist.dist / HotSpotVMJDKDeployedDist.dist: the distribution of a
\* deployed dist; the VM archive is the one instantiated for the active vm and
\* build kind.
dist(d, avm, abuild) ==
    IF d.cls = "HotSpotVMJDKDeployedDist"
    THEN [name |-> "JVM_" \o abuild \o "_" \o avm,
          path |-> <<"dists", "JVM_" \o abuild \o "_" \o avm \o ".tar">>,
          sourcesPath |-> <<"dists", "JVM_" \o abuild \o "_" \o avm \o ".src.zip">>]
    ELSE [name |-> d.name,
          path |-> <<"dists", d.name \o ".jar">>,
          sourcesPath |-> <<"dists", d.name \o ".src.zip">>]

\* LibJDKDeployedDist.targetDir / JvmciJDKDeployedDist.targetDir
targetDir(d) ==
    IF d.cls = "LibJDKDeployedDist" THEN <<"jre", "lib">> ELSE <<"jre", "lib", "jvmci">>

\* What an operation on the file system yields: the file system it leaves and
\* how it ended: "ok", "error" (an exception such as IOError or AssertionError)
\* or "abort" (mx.abort, a SystemExit), with the words of the message.
Ok(f) == [fs |-> f, status |-> "ok", msg |-> <<>>]
Err(f, e) == [fs |-> f, status |-> "error", msg |-> <<e>>]
Abort(f, m) == [fs |-> f, status |-> "abort", msg |-> m]

\* os.symlink(src, dstLib): fails when something is at dstLib.
symlink(f, src, dstLib) ==
    IF lexists(f, dstLib) THEN Err(f, "OSError: File exists")
    ELSE Ok(WriteFile(f, dstLib, Link(src)))

\* The installation of src as dstLib, run to its end. In symlink mode a link
\* that resolves to src is kept, anything else that exists() is removed first;
\* in copy mode the copy in a temporary file is renamed to dstLib.
InstallAs(f, src, dstLib) ==
    IF symlinkJar
    THEN IF ~islink(f, dstLib) \/ ~(realpath(f, dstLib) = src)
         THEN symlink(IF exists(f, dstLib) THEN RemoveFile(f, dstLib) ELSE f, src, dstLib)
         ELSE Ok(f)
    ELSE IF ~exists(f, src) THEN Err(f, "IOError: No such file or directory")
         ELSE Ok(WriteFile(f, dstLib, f[realpath(f, src)]))

\* copyToJdk installing every file under one name, not under its own.
CopyToJdkOneName(f, src, dst) == InstallAs(f, src, dst \o <<"classes.jar">>)

\* copyToJdk(src, dst): the file src installed under its name in the directory dst.
copyToJdk(f, src, dst) == InstallAs(f, src, dst \o <<src[Len(src)]>>)

\* The second half of JarJDKDeployedDist._copyToJdk: the sources, when they exist.
CopySources(r, sourcesPath, dst) ==
    IF r.status # "ok" THEN r
    ELSE IF exists(r.fs, sourcesPath) THEN copyToJdk(r.fs, sourcesPath, dst)
    ELSE r

\* JarJDKDeployedDist._copyToJdk: the jar and, when it exists, its sources.
_copyToJdk(f, d, jdkDir, target, avm, abuild) ==
    CopySources(copyToJdk(f, dist(d, avm, abuild).path, jdkDir \o target),
                dist(d, avm, abuild).sourcesPath, jdkDir \o target)

\* The path of a tree without the Contents/Home of the macOS layout.
StripContentsHome(jdkDir) ==
    IF Len(jdkDir) >= 2 /\ SubSeq(jdkDir, Len(jdkDir) - 1, Len(jdkDir)) = <<"Contents", "Home">>
    THEN SubSeq(jdkDir, 1, Len(jdkDir) - 2)
    ELSE jdkDir

\* os.path.relpath(path, start) of a path under start.
relpath(path, start) == SubSeq(path, Len(start) + 1, Len(path))

\* _vmbuildFromJdkDir: the build kind a tree path stands for; ok is FALSE when
\* one of the two assertions fails.
_vmbuildFromJdkDir(jdkDir) ==
    IF ~IsPrefix(_jdksDir, jdkDir) THEN [ok |-> FALSE, vmbuild |-> None]
    ELSE IF Len(relpath(StripContentsHome(jdkDir), _jdksDir)) = 1
            /\ relpath(StripContentsHome(jdkDir), _jdksDir)[1] \in BuildKinds
         THEN [ok |-> TRUE, vmbuild |-> relpath(StripContentsHome(jdkDir), _jdksDir)[1]]
         ELSE [ok |-> FALSE, vmbuild |-> None]

\* The names of _hs_deploy_map that are extracted into the directory of the VM.
VmLibNames == {_lib("jvm"), _lib_dbg("jvm")}

\* The names of _hs_deploy_map that are extracted into the VM library directory.
LibNames == {_lib("saproc"), _lib_dbg("saproc"), _lib("jsig"), _lib_dbg("jsig")}

\* _hs_deploy_map with the libraries of the VM always in the server directory.
HsDeployMapServer(avm) ==
    [m \in {"jvmti.h", "sa-jdi.jar"} \cup VmLibNames \cup LibNames |->
        IF m = "jvmti.h" THEN <<"include">>
        ELSE IF m = "sa-jdi.jar" THEN <<"lib">>
        ELSE IF m \in VmLibNames THEN relativeVmLibDirInJdk \o <<"server">>
        ELSE relativeVmLibDirInJdk]

\* _hs_deploy_map with the libraries of the VM beside those of saproc and jsig.
HsDeployMapNoVm(avm) ==
    [m \in {"jvmti.h", "sa-jdi.jar"} \cup VmLibNames \cup LibNames |->
        IF m = "jvmti.h" THEN <<"include">>
        ELSE IF m = "sa-jdi.jar" THEN <<"lib">>
        ELSE relativeVmLibDirInJdk]

\* _hs_deploy_map: archive member -> the directory of the tree it is extracted to.
_hs_deploy_map(avm) ==
    [m \in {"jvmti.h", "sa-jdi.jar"} \cup VmLibNames \cup LibNames |->
        IF m = "jvmti.h" THEN <<"include">>
        ELSE IF m = "sa-jdi.jar" THEN <<"lib">>
        ELSE IF m \in VmLibNames THEN relativeVmLibDirInJdk \o <<avm>>
        ELSE relativeVmLibDirInJdk]

\* The loop over tar.getmembers(): the members named in the deploy map are
\* extracted, each to its directory.
ExtractMembers(f, tar, jdkDir, map) ==
    [p \in DOMAIN f \cup {jdkDir \o map[tar.data[3][i]] \o <<tar.data[3][i]>> :
                            i \in {k \in DOMAIN tar.data[3] : tar.data[3][k] \in DOMAIN map}} |->
        IF \E i \in DOMAIN tar.data[3] :
               tar.data[3][i] \in DOMAIN map /\ p = jdkDir \o map[tar.data[3][i]] \o <<tar.data[3][i]>>
        THEN File(<<tar.data[1] \o ":" \o p[Len(p)], tar.data[2]>>)
        ELSE f[p]]

\* HotSpotVMJDKDeployedDist.deploy without the comparison of the build kinds.
HotSpotDeployUngated(f, path, jdkDir, avm, abuild) ==
    IF ~_vmbuildFromJdkDir(jdkDir).ok
    THEN Err(f, "AssertionError: The vmbuild derived is unknown")
    ELSE IF ~exists(f, path) THEN Err(f, "IOError: No such file or directory")
    ELSE Ok(ExtractMembers(f, f[path], jdkDir, _hs_deploy_map(avm)))

\* HotSpotVMJDKDeployedDist.deploy: nothing is done for the tree of another
\* build kind than the active one; path is the archive's (self.dist().path).
HotSpotDeploy(f, path, jdkDir, avm, abuild) ==
    IF ~_vmbuildFromJdkDir(jdkDir).ok
    THEN Err(f, "AssertionError: The vmbuild derived is unknown")
    ELSE IF _vmbuildFromJdkDir(jdkDir).vmbuild # abuild THEN Ok(f)
    ELSE IF ~exists(f, path) THEN Err(f, "IOError: No such file or directory")
    ELSE Ok(ExtractMembers(f, f[path], jdkDir, _hs_deploy_map(avm)))

\* JDKDeployedDist.deploy, by class.
deploy(f, d, jdkDir, avm, abuild) ==
    IF d.cls = "HotSpotVMJDKDeployedDist"
    THEN HotSpotDeploy(f, dist(d, avm, abuild).path, jdkDir, avm, abuild)
    ELSE _copyToJdk(f, d, jdkDir, targetDir(d), avm, abuild)

\* The place of a build kind in _vmbuildChoices (past the end for another name).
Rank(e) ==
    IF e \in BuildKinds
    THEN CHOOSE i \in DOMAIN _vmbuildChoices : _vmbuildChoices[i] = e
    ELSE Len(_vmbuildChoices) + 1

\* The entries of a directory in the order the loop visits them.
RECURSIVE Ordered(_)
Ordered(S) ==
    IF S = {} THEN <<>>
    ELSE <<CHOOSE x \in S : \A y \in S : Rank(x) <= Rank(y)>>
         \o Ordered(S \ {CHOOSE x \in S : \A y \in S : Rank(x) <= Rank(y)})

\* The loop of _installDistInJdks over the entries left to visit: an error
\* ends it.
RECURSIVE DeployInto(_, _, _, _, _)
DeployNext(r, d, entries, avm, abuild) ==
    IF r.status # "ok" THEN r ELSE DeployInto(r.fs, d, entries, avm, abuild)

DeployInto(f, d, entries, avm, abuild) ==
    IF entries = <<>> THEN Ok(f)
    ELSE DeployNext(deploy(f, d, _jdkDir(_jdksDir, entries[1]), avm, abuild),
                    d, Tail(entries), avm, abuild)

\* _installDistInJdks deploying into the first entry of _jdksDir only.
InstallInFirstJdk(f, d, avm, abuild) ==
    IF exists(f, _jdksDir)
    THEN DeployInto(f, d, SubSeq(Ordered(listdir(f, _jdksDir)), 1, 1), avm, abuild)
    ELSE Ok(f)

\* _installDistInJdks: the distribution deployed into every entry of _jdksDir.
_installDistInJdks(f, d, avm, abuild) ==
    IF exists(f, _jdksDir)
    THEN DeployInto(f, d, Ordered(listdir(f, _jdksDir)), avm, abuild)
    ELSE Ok(f)

\* ------------------------------------------------- the release file

\* os.linesep, as a line written with it is read again.
linesep == IF mxos = "windows" THEN "\r\n" ELSE "\n"

\* The place of the first token equal to c (0: there is none).
First(toks, c) ==
    IF \E k \in DOMAIN toks : toks[k] = c
    THEN CHOOSE k \in DOMAIN toks : toks[k] = c /\ \A j \in 1..(k - 1) : toks[j] # c
    ELSE 0

\* str.split(' ') of a sequence of tokens: the pieces between the spaces.
RECURSIVE split(_)
split(toks) ==
    IF First(toks, " ") = 0 THEN <<toks>>
    ELSE <<SubSeq(toks, 1, First(toks, " ") - 1)>>
         \o split(SubSeq(toks, First(toks, " ") + 1, Len(toks)))

\* p.index(':'): the place of the first ':' of a piece, 0 when it has none (a
\* ValueError).
index(p) == First(p, ":")

\* versions[k] = v of a list of pairs: the pair is appended, present or not.
DictSetAppends(versions, k, v) == Append(versions, [k |-> k, v |-> v])

\* versions[k] = v of an OrderedDict: an entry present is overwritten in place,
\* a new one is appended.
DictSet(versions, k, v) ==
    IF \E i \in DOMAIN versions : versions[i].k = k
    THEN [i \in DOMAIN versions |->
             IF versions[i].k = k THEN [k |-> k, v |-> v] ELSE versions[i]]
    ELSE Append(versions, [k |-> k, v |-> v])

\* del versions[k] that deletes nothing.
DictDelNothing(versions, k) == versions

\* del versions[k]
RECURSIVE DictDel(_, _)
DictDel(versions, k) ==
    IF versions = <<>> THEN <<>>
    ELSE IF versions[1].k = k THEN DictDel(Tail(versions), k)
    ELSE <<versions[1]>> \o DictDel(Tail(versions), k)

\* The loop over the pieces of a SOURCE line: the OrderedDict component ->
\* revision; ok is FALSE when a piece has no ':'.
RECURSIVE ParsePairs(_, _)
ParsePairs(pieces, versions) ==
    IF pieces = <<>> THEN [ok |-> TRUE, versions |-> versions]
    ELSE IF pieces[1] = <<>> THEN ParsePairs(Tail(pieces), versions)
    ELSE IF index(pieces[1]) = 0 THEN [ok |-> FALSE, versions |-> versions]
    ELSE ParsePairs(Tail(pieces),
                    DictSet(versions, SubSeq(pieces[1], 1, index(pieces[1]) - 1),
                            SubSeq(pieces[1], index(pieces[1]) + 1, Len(pieces[1]))))

\* ' '.join(k + ":" + v for k, v in versions.iteritems())
RECURSIVE JoinPairs(_)
JoinPairs(versions) ==
    IF versions = <<>> THEN <<>>
    ELSE IF Len(versions) = 1 THEN versions[1].k \o <<":">> \o versions[1].v
    ELSE versions[1].k \o <<":">> \o versions[1].v \o <<" ">> \o JoinPairs(Tail(versions))

\* timmedLine.startswith('SOURCE="') and timmedLine.endswith('"')
IsSourceLine(t) ==
    /\ Len(t) >= 2
    /\ t[1] = "SOURCE="
    /\ t[2] = "\""
    /\ t[Len(t)] = "\""

\* The SOURCE line written from the pairs parsed so far, whether or not every
\* piece parsed.
SourceLineFromParsed(line, parsed, r) ==
    [toks |-> <<"SOURCE=", "\"", " ">>
              \o JoinPairs(DictDel(DictSet(parsed.versions, <<"jvmci">>, <<r>>),
                                   <<"hotspot">>))
              \o <<"\"">>,
     nl |-> linesep]

\* The SOURCE line written for the pairs parsed: jvmci set, hotspot deleted; the
\* line as it was read when a pair did not parse.
SourceLine(line, parsed, r) ==
    IF parsed.ok
    THEN [toks |-> <<"SOURCE=", "\"", " ">>
                   \o JoinPairs(DictDel(DictSet(parsed.versions, <<"jvmci">>, <<r>>),
                                        <<"hotspot">>))
                   \o <<"\"">>,
          nl |-> linesep]
    ELSE line

\* One line of the release file as it is written back.
PatchLine(line, r) ==
    IF IsSourceLine(strip(line))
    THEN SourceLine(line, ParsePairs(split(SubSeq(strip(line), 3, Len(strip(line)) - 1)), <<>>), r)
    ELSE line

\* The lines of a release file patched.
PatchLines(lines, r) == [i \in DOMAIN lines |-> PatchLine(lines[i], r)]

\* A SOURCE line with a piece that does not parse: the except branch is taken.
Unparsed(line) ==
    /\ IsSourceLine(strip(line))
    /\ ~ParsePairs(split(SubSeq(strip(line), 3, Len(strip(line)) - 1)), <<>>).ok

\* mx.warn: one warning for every line of the release file that does not parse.
ReleaseWarnings(f, jdkDir) ==
    IF exists(f, jdkDir \o <<"release">>)
    THEN [i \in 1..Len(SelectSeq(f[jdkDir \o <<"release">>].data, Unparsed)) |->
             "Exception substring not found while updating release file"]
    ELSE <<>>

\* The patch of the 'release' file of a tree, when it has one.
PatchRelease(f, jdkDir, r) ==
    IF exists(f, jdkDir \o <<"release">>)
    THEN WriteFile(f, jdkDir \o <<"release">>,
                   Text(WrittenLines(PatchLines(f[jdkDir \o <<"release">>].data, r))))
    ELSE f

\* ------------------------------------------------- the JDK tree builder

\* mx.add_lib_suffix('hsdis-' + mx.get_arch())
HsdisName ==
    "hsdis-" \o arch \o (IF mxos = "windows" THEN ".dll"
                         ELSE IF mxos = "darwin" THEN ".dylib" ELSE ".so")

\* hsdis(args, copyToDir): the disassembler library fetched and copied into
\* the directory; how is the outcome: no library for the platform and
\* architecture (a warning, and return), the download aborts, the copy fails,
\* or all goes well.
hsdis(f, copyToDir, how) ==
    IF how = "unsupported" THEN Ok(f)
    ELSE IF how = "abort" THEN Abort(f, <<"download failed">>)
    ELSE IF exists(f, copyToDir)
         THEN IF how = "ioerror" THEN Err(f, "IOError: copy failed")
              ELSE Ok(WriteFile(f, copyToDir \o <<HsdisName>>, File(<<"hsdis", 0>>)))
         ELSE Ok(f)

\* try: hsdis(...) except SystemExit: pass
TryHsdis(h, f) == IF h.status = "abort" THEN Ok(f) ELSE h

\* The end of the creation: jvm.cfg is written with the line added, then hsdis.
WriteCfg(f, jdkDir, jvmCfgLines, env) ==
    TryHsdis(hsdis(WriteFile(f, getVmCfgInJdk(jdkDir), Text(WrittenLines(jvmCfgLines))),
                   vmLibDirInJdk(jdkDir), env.hsdis),
             WriteFile(f, getVmCfgInJdk(jdkDir), Text(WrittenLines(jvmCfgLines))))

\* The steps after the copy with the move made before jvm.cfg is looked for.
AfterCopyMoveFirst(f, jdkDir, env) ==
    IF ~exists(f, vmLibDirInJdk(jdkDir) \o <<"server">>)
    THEN Err(f, "IOError: No such file or directory")
    ELSE IF ~exists(f, getVmCfgInJdk(jdkDir))
         THEN Abort(movedir(f, vmLibDirInJdk(jdkDir) \o <<"server">>,
                            vmLibDirInJdk(jdkDir) \o <<"original">>),
                    getVmCfgInJdk(jdkDir) \o <<"does not exist">>)
         ELSE WriteCfg(movedir(f, vmLibDirInJdk(jdkDir) \o <<"server">>,
                               vmLibDirInJdk(jdkDir) \o <<"original">>),
                       jdkDir,
                       f[getVmCfgInJdk(jdkDir)].data \o <<Line(KnownLine("original"))>>,
                       env)

\* The copy made: jvm.cfg must exist; its lines are read, '-original KNOWN' is
\* added, the directory of the default VM is moved to 'original' and jvm.cfg
\* is written.
AfterCopy(f, jdkDir, env) ==
    IF ~exists(f, getVmCfgInJdk(jdkDir))
    THEN Abort(f, getVmCfgInJdk(jdkDir) \o <<"does not exist">>)
    ELSE IF ~exists(f, vmLibDirInJdk(jdkDir) \o <<"server">>)
         THEN Err(f, "IOError: No such file or directory")
         ELSE WriteCfg(movedir(f, vmLibDirInJdk(jdkDir) \o <<"server">>,
                               vmLibDirInJdk(jdkDir) \o <<"original">>),
                       jdkDir,
                       f[getVmCfgInJdk(jdkDir)].data \o <<Line(KnownLine("original"))>>,
                       env)

\* The creation of a tree that does not exist (the body of 'if not exists(jdkDir)'):
\* shutil.copytree fails when its destination exists, which the macOS layout
\* allows (the root is there, Contents/Home is not).
CreateTree(f, jdkDir, env) ==
    IF lexists(f, StripContentsHome(jdkDir)) THEN Err(f, "OSError: File exists")
    ELSE AfterCopy(copytree(f, StripContentsHome(BootstrapHome), StripContentsHome(jdkDir)),
                   jdkDir, env)

\* The loop over jdkDeployedDists of get_jvmci_jdk_dir, from the i-th on: a
\* distribution whose file exists is installed in every tree.
RECURSIVE DeployDists(_, _, _, _)
DeployDistsNext(r, i, avm, abuild) ==
    IF r.status # "ok" THEN r ELSE DeployDists(r.fs, i, avm, abuild)

DeployDists(f, i, avm, abuild) ==
    IF i > Len(jdkDeployedDists) THEN Ok(f)
    ELSE IF exists(f, dist(jdkDeployedDists[i], avm, abuild).path)
         THEN DeployDistsNext(_installDistInJdks(f, jdkDeployedDists[i], avm, abuild),
                              i + 1, avm, abuild)
         ELSE DeployDists(f, i + 1, avm, abuild)

\* The look-up of a VM in the jvm.cfg of a tree ('-<vm> KNOWN').
VmKnown(f, jdkDir, vm) == KnownLine(vm) \in StrippedLines(f, getVmCfgInJdk(jdkDir))

\* jdkDir = _jdkDir(_jdksDir(), build): the tree of a build kind.
JdkDir(build) == _jdkDir(_jdksDir, build)

\* The number of lines of the jvm.cfg of a tree that declare a VM KNOWN.
KnownLines(f, jdkDir, vm) ==
    Cardinality({i \in DOMAIN f[getVmCfgInJdk(jdkDir)].data :
                    strip(f[getVmCfgInJdk(jdkDir)].data[i]) = KnownLine(vm)})

RECURSIVE get_jvmci_jdk_dir(_, _, _, _, _, _, _, _)

\* The end of build([]): mx.build runs when the tree is initialized.
MxBuild(r, env) ==
    IF r.status # "ok" THEN [fs |-> r.fs, status |-> r.status, msg |-> r.msg]
    ELSE IF env.mxbuild = "fail" THEN Abort(r.fs, <<"build failed">>)
    ELSE Ok(r.fs)

\* build([]) with vm and bld active: the tree is initialized and mx.build runs.
build(f, avm, abuild, env) ==
    MxBuild(get_jvmci_jdk_dir(f, avm, abuild, None, None, TRUE, TRUE, env), env)

\* The end of _handle_missing_VM for the VM named: in an interactive session
\* the user may have it built, in the scope of VM(vm, bld); otherwise the
\* process aborts, naming vm and bld.
HandleMissing(f, bld, vm, env) ==
    IF env.interactive /\ env.answer
    THEN build(f, VM__enter__(VM__init__(vm, bld)).vm,
               VM__enter__(VM__init__(vm, bld)).build, env)
    ELSE Abort(f, <<"You need to run", "mx", "--vm=" \o vm, "--vmbuild=" \o bld, "build",
                   "to build the selected VM">>)

\* _handle_missing_VM with the vm as it was given.
HandleMissingAsGiven(f, avm, bld, vm, env) == HandleMissing(f, bld, vm, env)

\* _handle_missing_VM(bld, vm): the active VM stands for a vm not given.
_handle_missing_VM(f, avm, bld, vm, env) ==
    HandleMissing(f, bld, IF vm = None THEN avm ELSE vm, env)

\* The first part with the creation not guarded by the existence of the tree.
EnsureTreeRecreate(f, avm, bld, vmToCheck, create, env) ==
    IF create THEN CreateTree(f, _jdkDir(_jdksDir, bld), env)
    ELSE IF exists(f, _jdkDir(_jdksDir, bld)) THEN Ok(f)
    ELSE _handle_missing_VM(f, avm, bld, vmToCheck, env)

\* The first part of get_jvmci_jdk_dir: the tree is created when create is set
\* and it does not exist; without create a tree that does not exist is missing.
EnsureTree(f, avm, bld, vmToCheck, create, env) ==
    IF exists(f, _jdkDir(_jdksDir, bld)) THEN Ok(f)
    ELSE IF create THEN CreateTree(f, _jdkDir(_jdksDir, bld), env)
    ELSE _handle_missing_VM(f, avm, bld, vmToCheck, env)

\* The release file is patched when the distributions are deployed; the
\* warnings of the patch are what the call has logged when it ends.
PatchAfter(d, jdkDir, env) ==
    IF d.status # "ok" THEN d
    ELSE [fs |-> PatchRelease(d.fs, jdkDir, env.rev), status |-> "ok",
          msg |-> ReleaseWarnings(d.fs, jdkDir)]

\* The second part with the distributions deployed whatever deployDists is.
DeployPartAlways(r, avm, abuild, bld, deployDists, env) ==
    IF r.status # "ok" THEN r
    ELSE PatchAfter(DeployDists(r.fs, 1, avm, abuild), _jdkDir(_jdksDir, bld), env)

\* The second part: with deployDists the distributions are installed and the
\* release file of the tree is patched.
DeployPart(r, avm, abuild, bld, deployDists, env) ==
    IF r.status # "ok" \/ ~deployDists THEN r
    ELSE PatchAfter(DeployDists(r.fs, 1, avm, abuild), _jdkDir(_jdksDir, bld), env)

\* The third part: the VM to check must be declared KNOWN in jvm.cfg.
CheckPart(r, avm, bld, vmToCheck, env) ==
    IF r.status # "ok" \/ vmToCheck = None THEN r
    ELSE IF ~exists(r.fs, getVmCfgInJdk(_jdkDir(_jdksDir, bld)))
         THEN Err(r.fs, "IOError: No such file or directory")
         ELSE IF VmKnown(r.fs, _jdkDir(_jdksDir, bld), vmToCheck) THEN r
              ELSE _handle_missing_VM(r.fs, avm, bld, vmToCheck, env)

\* return jdkDir
Return(r, jdkDir) ==
    [fs |-> r.fs, status |-> r.status, msg |-> r.msg,
     value |-> IF r.status = "ok" THEN jdkDir ELSE <<>>]

\* get_jvmci_jdk_dir for the build kind bld.
GetJdkDir(f, avm, abuild, bld, vmToCheck, create, deployDists, env) ==
    Return(CheckPart(DeployPart(EnsureTree(f, avm, bld, vmToCheck, create, env),
                                avm, abuild, bld, deployDists, env),
                     avm, bld, vmToCheck, env),
           _jdkDir(_jdksDir, bld))

\* get_jvmci_jdk_dir(build, vmToCheck, create, deployDists) with avm and abuild
\* the active VM and build kind; a completed call returns the path of the tree.
get_jvmci_jdk_dir(f, avm, abuild, build0, vmToCheck, create, deployDists, env) ==
    GetJdkDir(f, avm, abuild, IF build0 = None THEN abuild ELSE build0,
              vmToCheck, create, deployDists, env)

\* ------------------------------------------------- the operations on the trees

\* The version of the build that made a file (0: there is no such file).
VersionOf(f, p) == IF p \in DOMAIN f THEN f[p].data[2] ELSE 0

\* The members of the archive of a native VM build: the deployable ones and the
\* rest of the build's output.
ArchiveMembers == <<"jvmti.h", "sa-jdi.jar", _lib("jvm"), _lib("saproc"), "Xusage.txt">>

\* What the environment decides for one call: whether the session is
\* interactive (mx.is_interactive()) and the user's answer to 'Build it now'
\* (asked in an interactive session only), how the download and the copy of
\* hsdis end, how mx.build ends, and the revision of the working tree.
Envs ==
    {e \in [interactive : BOOLEAN, answer : BOOLEAN, hsdis : {"ok", "unsupported", "abort", "ioerror"},
            mxbuild : {"ok", "fail"}, rev : {revision}] :
        /\ e.answer => e.interactive
        /\ e.mxbuild = "fail" => e.answer}

\* The decisions that a call can meet: hsdis runs at the creation of a tree
\* only, the session matters only when a VM is missing (the tree does not
\* exist, or its jvm.cfg does not declare the VM to check).
EnvsOf(build0, vmToCheck, create) ==
    {e \in Envs :
        /\ e.hsdis # "ok" =>
              ~exists(fs, JdkDir(IF build0 = None THEN _vmbuild ELSE build0))
        /\ e.interactive =>
              \/ ~create /\ ~exists(fs, JdkDir(IF build0 = None THEN _vmbuild ELSE build0))
              \/ /\ vmToCheck # None
                 /\ exists(fs, getVmCfgInJdk(JdkDir(IF build0 = None THEN _vmbuild ELSE build0)))
                 /\ ~VmKnown(fs, JdkDir(IF build0 = None THEN _vmbuild ELSE build0), vmToCheck)}

\* The call ends: what it leaves in the file system and what the caller gets.
CallEnds(r, call) ==
    /\ fs' = r.fs
    /\ result' = [op |-> call.op, args |-> call.args,
                  repeat |-> result.op = call.op /\ result.status = "ok"
                             /\ result.args = call.args,
                  status |-> r.status, msg |-> r.msg,
                  value |-> IF "value" \in DOMAIN r THEN r.value ELSE <<>>]

\* A call of get_jvmci_jdk_dir(build, vmToCheck, create, deployDists).
GetJvmciJdkDir(build0, vmToCheck, create, deployDists, env) ==
    /\ CallEnds(get_jvmci_jdk_dir(fs, _vm, _vmbuild, build0, vmToCheck, create,
                                  deployDists, env),
                [op |-> "get_jvmci_jdk_dir",
                 args |-> [build |-> IF build0 = None THEN _vmbuild ELSE build0,
                           vmToCheck |-> vmToCheck, create |-> create,
                           deployDists |-> deployDists,
                           interactive |-> env.interactive, answer |-> env.answer]])
    /\ UNCHANGED <<selVars, mxos, symlinkJar, revision, copyVars>>

\* The archive file a build makes for a distribution.
Archive(d, name, v) ==
    IF d.cls = "HotSpotVMJDKDeployedDist" THEN Tar(name, v, ArchiveMembers)
    ELSE File(<<name, v>>)

\* The file system after the archive step: the archive and, for a jar with
\* sources, its sources archive.
Archived(f, d, ds, v, withSources) ==
    IF withSources /\ d.cls # "HotSpotVMJDKDeployedDist"
    THEN WriteFile(WriteFile(f, ds.path, Archive(d, ds.name, v)),
                   ds.sourcesPath, File(<<ds.name \o ".src", v>>))
    ELSE WriteFile(f, ds.path, Archive(d, ds.name, v))

\* A build archives the i-th deployed distribution anew (with or without its
\* sources); its update listener installs it in the trees.
DistUpdated(i, withSources) ==
    /\ VersionOf(fs, dist(jdkDeployedDists[i], _vm, _vmbuild).path) < MaxVersion
    /\ CallEnds(_installDistInJdks(
                    Archived(fs, jdkDeployedDists[i],
                             dist(jdkDeployedDists[i], _vm, _vmbuild),
                             VersionOf(fs, dist(jdkDeployedDists[i], _vm, _vmbuild).path) + 1,
                             withSources),
                    jdkDeployedDists[i], _vm, _vmbuild),
                [op |-> "_installDistInJdks",
                 args |-> [dist |-> jdkDeployedDists[i].name, withSources |-> withSources]])
    /\ UNCHANGED <<selVars, mxos, symlinkJar, revision, copyVars>>

\* The archives a build of (vm, build kind) leaves in the distribution
\* directory: the jars, the sources of JVMCI_API and the archive of the VM.
BuiltDists(f, avm, abuild) ==
    Archived(Archived(Archived(Archived(f,
        jdkDeployedDists[1], dist(jdkDeployedDists[1], avm, abuild), 1, FALSE),
        jdkDeployedDists[2], dist(jdkDeployedDists[2], avm, abuild), 1, TRUE),
        jdkDeployedDists[3], dist(jdkDeployedDists[3], avm, abuild), 1, FALSE),
        jdkDeployedDists[4], dist(jdkDeployedDists[4], avm, abuild), 1, FALSE)

\* The bootstrap JDK: the launcher and, each or not, the jvm.cfg file declaring
\* the server VM, the library directory of the server VM and the release file.
BootstrapJdk(hasCfg, hasServer, hasRelease) ==
    LET home == BootstrapHome
        java == home \o <<"bin", "java">>
        cfg == getVmCfgInJdk(home)
        jvm == vmLibDirInJdk(home) \o <<"server", _lib("jvm")>>
        release == home \o <<"release">>
        paths == {java} \cup (IF hasCfg THEN {cfg} ELSE {})
                        \cup (IF hasServer THEN {jvm} ELSE {})
                        \cup (IF hasRelease THEN {release} ELSE {})
    IN  [p \in paths |->
            IF p = java THEN File(<<"java", 0>>)
            ELSE IF p = cfg THEN Text(<<Line(KnownLine("server")),
                                        Line(<<"-client", " ", "IGNORE">>)>>)
            ELSE IF p = jvm /\ hasServer THEN File(<<"bootstrap jvm", 0>>)
            ELSE Text(<<Line(<<"JAVA_VERSION=", "\"", "1.8.0_141", "\"">>),
                        Line(<<"SOURCE=", "\"", " ", ".", ":", "3f0a", " ",
                               "hotspot", ":", "77c1", "\"">>)>>)]


\* The update listener of the i-th deployed distribution runs on the archive
\* that a build has left: _installDistInJdks installs it in the trees.
DistInstalled(i) ==
    /\ CallEnds(_installDistInJdks(fs, jdkDeployedDists[i], _vm, _vmbuild),
                [op |-> "_installDistInJdks",
                 args |-> [dist |-> jdkDeployedDists[i].name, withSources |-> FALSE]])
    /\ UNCHANGED <<selVars, mxos, symlinkJar, revision, copyVars>>
\* ------------------------------------------------- copyToJdk, step by step

\* A file that is being written: the first k blocks of the content c.
Partial(c, k) == [t |-> "partial", data |-> <<c, k>>]

\* What a reader that opens a path reads: the file there (the one a link
\* leads to), or nothing.
Content(f, p) ==
    IF realpath(f, p) \in DOMAIN f THEN f[realpath(f, p)] ELSE [t |-> "none"]

\* The k-th block of the content c written to the file at p.
WriteBlock(f, p, c, k) == WriteFile(f, p, IF k = Chunks THEN c ELSE Partial(c, k))

\* os.rename(src, dst) failing wherever something is at dst.
RenameFailsOnAnyPlatform(f, dst) == lexists(f, dst)

\* os.rename(src, dst) raises OSError: on Windows, when something is at dst.
RenameFails(f, dst) == mxos = "windows" /\ lexists(f, dst)

\* os.rename(src, dst) done: dst is src, replaced in one step.
rename(f, src, dst) == WriteFile(RemoveFile(f, src), dst, f[src])

\* The record of a call of copyToJdk that has ended.
Ended(status, msg) ==
    [op |-> "copyToJdk", args |-> [src |-> proc.src, dst |-> proc.dst], repeat |-> FALSE,
     status |-> status, msg |-> msg, value |-> <<>>]

\* copyToJdk(src, dst) in symlink mode, the whole call.
CopyToJdkSymlink ==
    /\ proc.pc = "idle"
    /\ symlinkJar
    /\ CallEnds(copyToJdk(fs, proc.src, proc.dst),
                [op |-> "copyToJdk", args |-> [src |-> proc.src, dst |-> proc.dst]])
    /\ proc' = [proc EXCEPT !.pc = "done"]
    /\ UNCHANGED <<selVars, mxos, symlinkJar, revision, seen>>

\* copyToJdk(src, dst) in copy mode, up to tempfile.mkstemp: an empty file
\* with a new name is made in dst.
Mkstemp ==
    /\ proc.pc = "idle"
    /\ ~symlinkJar
    /\ fs' = WriteFile(fs, proc.dst \o <<proc.src[Len(proc.src)] \o ".tmp">>, Partial(<<>>, 0))
    /\ proc' = [proc EXCEPT !.pc = "copyfile",
                            !.tmp = proc.dst \o <<proc.src[Len(proc.src)] \o ".tmp">>]
    /\ UNCHANGED <<selVars, mxos, symlinkJar, revision, result, seen>>

\* shutil.copyfile(src, tmp): one more block is written.
CopyBlock ==
    /\ proc.pc = "copyfile"
    /\ exists(fs, proc.src)
    /\ fs' = WriteBlock(fs, proc.tmp, Content(fs, proc.src), proc.k + 1)
    /\ proc' = [proc EXCEPT !.k = IF proc.k + 1 = Chunks THEN 0 ELSE proc.k + 1,
                            !.pc = IF proc.k + 1 = Chunks THEN "move" ELSE "copyfile"]
    /\ UNCHANGED <<selVars, mxos, symlinkJar, revision, result, seen>>

\* shutil.copyfile(src, tmp) raises IOError (the source cannot be read, the
\* disk is full): the call ends there.
CopyFails ==
    /\ proc.pc = "copyfile"
    /\ proc' = [proc EXCEPT !.pc = "failed"]
    /\ result' = Ended("error", <<"IOError">>)
    /\ UNCHANGED <<selVars, mxos, symlinkJar, revision, fs, seen>>

\* os.close(fd); shutil.move(tmp, dstLib): the rename, or when it fails the
\* start of the copy onto dstLib (copy2 opens it for writing).
Move ==
    /\ proc.pc = "move"
    /\ IF RenameFails(fs, proc.dstLib)
       THEN /\ fs' = WriteFile(fs, proc.dstLib, Partial(<<>>, 0))
            /\ proc' = [proc EXCEPT !.pc = "copy2"]
       ELSE /\ fs' = rename(fs, proc.tmp, proc.dstLib)
            /\ proc' = [proc EXCEPT !.pc = "chmod"]
    /\ UNCHANGED <<selVars, mxos, symlinkJar, revision, result, seen>>

\* copy2(tmp, dstLib) of shutil.move: one more block is written to dstLib.
Copy2Block ==
    /\ proc.pc = "copy2"
    /\ fs' = WriteBlock(fs, proc.dstLib, fs[proc.tmp], proc.k + 1)
    /\ proc' = [proc EXCEPT !.k = IF proc.k + 1 = Chunks THEN 0 ELSE proc.k + 1,
                            !.pc = IF proc.k + 1 = Chunks THEN "unlink" ELSE "copy2"]
    /\ UNCHANGED <<selVars, mxos, symlinkJar, revision, result, seen>>

\* os.unlink(tmp) of shutil.move
Unlink ==
    /\ proc.pc = "unlink"
    /\ fs' = RemoveFile(fs, proc.tmp)
    /\ proc' = [proc EXCEPT !.pc = "chmod"]
    /\ UNCHANGED <<selVars, mxos, symlinkJar, revision, result, seen>>

\* os.chmod(dstLib, permissions): the call returns.
Chmod ==
    /\ proc.pc = "chmod"
    /\ proc' = [proc EXCEPT !.pc = "done"]
    /\ result' = Ended("ok", <<>>)
    /\ UNCHANGED <<selVars, mxos, symlinkJar, revision, fs, seen>>

\* Another process reads the file at the target path.
Read ==
    /\ proc.pc \notin {"none", "idle"}
    /\ seen' = Content(fs, proc.dstLib)
    /\ UNCHANGED <<selVars, fsVars, proc>>


\* ------------------------------------------------- the staleness of the native build

\* _suite.dir
SuiteDir == <<"suite">>

\* The source directories that needsBuild walks, in order.
SourceDirs == <<<<"src">>, <<"make">>, <<"jvmci", "jdk.vm.ci.hotspot", "src_gen", "hotspot">>>>

\* os.path.getmtime: the time at which the file was written.
getmtime(f, p) == f[realpath(f, p)].data[2]

\* mx.TimeStampFile(path): the path with its modification time; exists is
\* FALSE, and the time without meaning, when nothing exists at the path (the
\* timestamp None of mx).
TimeStampFile(f, p) ==
    [path |-> p, exists |-> exists(f, p),
     timestamp |-> IF exists(f, p) THEN getmtime(f, p) ELSE 0]

\* TimeStampFile.isNewerThan accepting an equal time.
IsNewerOrSame(ts, arg) ==
    /\ ts.exists
    /\ arg.exists
    /\ arg.timestamp <= ts.timestamp

\* TimeStampFile.isNewerThan(arg): strictly newer; never when either file is
\* not there.
isNewerThan(ts, arg) ==
    /\ ts.exists
    /\ arg.exists
    /\ arg.timestamp < ts.timestamp

\* The files that os.walk(join(_suite.dir, d)) yields for the loop: those under
\* the directory, less the subtree src/share/tools, which is taken from
\* dirnames when the walk is at src/share.
Walked(f, d) ==
    {p \in Under(f, SuiteDir \o d) :
        ~IsPrefix(SuiteDir \o <<"src", "share", "tools">>, p)}

\* dirnames.remove('tools') at src/share raises ValueError when src/share has
\* no subdirectory tools; the walk is there before any file under src/share.
RemoveFails(f, p) ==
    /\ IsPrefix(SuiteDir \o <<"src", "share">>, p)
    /\ Under(f, SuiteDir \o <<"src", "share", "tools">>) = {}

\* The orders in which the loops of needsBuild can meet the files: the source
\* directories one after the other, the files of each in the order of the walk.
Perms(S) ==
    {s \in [1..Cardinality(S) -> S] : \A i, j \in DOMAIN s : i # j => s[i] # s[j]}

WalkOrders(f) ==
    {a \o b \o c : a \in Perms(Walked(f, SourceDirs[1])),
                   b \in Perms(Walked(f, SourceDirs[2])),
                   c \in Perms(Walked(f, SourceDirs[3]))}

\* What needsBuild returns: (needs, reason).
Needs(f, needs, reason) ==
    [fs |-> f, status |-> "ok", msg |-> <<>>, value |-> <<needs, reason>>]

\* The loops of needsBuild over the files left to meet.
RECURSIVE Scan(_, _, _)
Scan(f, files, newestOutput) ==
    IF files = <<>> THEN Needs(f, FALSE, None)
    ELSE IF RemoveFails(f, files[1])
         THEN [fs |-> f, status |-> "error",
               msg |-> <<"ValueError: list.remove(x): x not in list">>, value |-> <<>>]
    ELSE IF newestOutput # <<>> /\ ~newestOutput[1].exists
         THEN Needs(f, TRUE, <<newestOutput[1].path, "does not exist">>)
    ELSE IF newestOutput # <<>> /\ isNewerThan(TimeStampFile(f, files[1]), newestOutput[1])
         THEN Needs(f, TRUE, <<files[1], "is newer than", newestOutput[1].path>>)
    ELSE Scan(f, Tail(files), newestOutput)

\* HotSpotBuildTask.needsBuild: super is what mx.ProjectBuildTask.needsBuild
\* returns, newestOutput what self.newestOutput() returns (<<>> for None, or
\* <<ts>> for the TimeStampFile ts of an output), order the order of the walk.
needsBuild(f, super, newestOutput, order) ==
    IF super[1] THEN Needs(f, super[1], super[2])
    ELSE Scan(f, order, newestOutput)

\* A call of needsBuild on the build task of the native project.
NeedsBuild(super, newestOutput, order) ==
    /\ CallEnds(needsBuild(fs, super, newestOutput, order),
                [op |-> "needsBuild",
                 args |-> [super |-> super, newestOutput |-> newestOutput, order |-> order]])
    /\ UNCHANGED <<selVars, mxos, symlinkJar, revision, copyVars>>

\* ------------------------------------------------- the native build task and buildvms

\* get_vm(): the configured VM.
get_vm == _vm

\* isVMSupported(vm): the client VM is not supported on Mac OS X.
isVMSupported(vm, os) == ~(vm = "client" /\ os = "darwin")

\* HotSpotBuildTask.__init__: the task of the native project.
HotSpotBuildTask(vmbuild, vm) == [vm |-> vm, vmbuild |-> vmbuild]

\* HotSpotProject.getBuildTask: the task takes the active build kind and VM.
getBuildTask == HotSpotBuildTask(_vmbuild, get_vm)

\* buildForbidden forbidding the original VM only in the build kinds that it
\* does not exist in.
BuildForbiddenUnlessProduct(self, nativeForbidden, os) ==
    IF nativeForbidden THEN [value |-> TRUE, msg |-> <<>>]
    ELSE IF self.vm = "original" /\ self.vmbuild # "product"
         THEN [value |-> TRUE, msg |-> <<"only product build of original VM exists">>]
    ELSE IF ~isVMSupported(self.vm, os)
         THEN [value |-> TRUE,
               msg |-> <<"The " \o self.vm \o " VM is not supported on this platform - skipping">>]
    ELSE [value |-> FALSE, msg |-> <<>>]

\* HotSpotBuildTask.buildForbidden: nativeForbidden is what
\* mx.NativeBuildTask.buildForbidden returns; msg is what is logged.
buildForbidden(self, nativeForbidden, os) ==
    IF nativeForbidden THEN [value |-> TRUE, msg |-> <<>>]
    ELSE IF self.vm = "original"
         THEN [value |-> TRUE,
               msg |-> IF self.vmbuild # "product"
                       THEN <<"only product build of original VM exists">> ELSE <<>>]
    ELSE IF ~isVMSupported(self.vm, os)
         THEN [value |-> TRUE,
               msg |-> <<"The " \o self.vm \o " VM is not supported on this platform - skipping">>]
    ELSE [value |-> FALSE, msg |-> <<>>]

\* What a build does with the task of the native project: the native build
\* (HotSpotBuildTask.build) is invoked when the task is not forbidden and
\* needs a build.
BuildOf(self, forbidden, needs) ==
    [vm |-> self.vm, vmbuild |-> self.vmbuild, forbidden |-> forbidden.value,
     native |-> ~forbidden.value /\ needs, msg |-> forbidden.msg]

\* The pairs of the two loops of buildvms, in order.
LoopPairs(vms, builds) ==
    [k \in 1..(Len(vms) * Len(builds)) |->
        <<vms[((k - 1) \div Len(builds)) + 1], builds[((k - 1) % Len(builds)) + 1]>>]

\* The pairs for which buildvms starts a build: the VMs supported, the
\* original VM in its product build only.
Started(pair) ==
    /\ isVMSupported(pair[1], mxos)
    /\ ~(pair[1] = "original" /\ pair[2] # "product")

\* buildvms: the builds started, each with the VM and build kind of its pair
\* selected, and what each does with the native build.
buildvms(vms, builds, nativeForbidden, needs) ==
    [k \in DOMAIN SelectSeq(LoopPairs(vms, builds), Started) |->
        BuildOf(HotSpotBuildTask(SelectSeq(LoopPairs(vms, builds), Started)[k][2],
                                 SelectSeq(LoopPairs(vms, builds), Started)[k][1]),
                buildForbidden(HotSpotBuildTask(SelectSeq(LoopPairs(vms, builds), Started)[k][2],
                                                SelectSeq(LoopPairs(vms, builds), Started)[k][1]),
                               nativeForbidden, mxos),
                needs)]

\* A build under the active selection: the task of the native project is
\* asked whether its build is forbidden.
Build(nativeForbidden, needs) ==
    /\ ~exc
    /\ CallEnds([fs |-> fs, status |-> "ok",
                 msg |-> buildForbidden(getBuildTask, nativeForbidden, mxos).msg,
                 value |-> BuildOf(getBuildTask,
                                   buildForbidden(getBuildTask, nativeForbidden, mxos), needs)],
                [op |-> "build",
                 args |-> [nativeForbidden |-> nativeForbidden, needs |-> needs]])
    /\ UNCHANGED <<selVars, mxos, symlinkJar, revision, copyVars>>

\* A call of buildvms with --vms and --builds.
BuildVms(vms, builds, nativeForbidden, needs) ==
    /\ ~exc
    /\ CallEnds([fs |-> fs, status |-> "ok", msg |-> <<>>,
                 value |-> buildvms(vms, builds, nativeForbidden, needs)],
                [op |-> "buildvms",
                 args |-> [vms |-> vms, builds |-> builds,
                           nativeForbidden |-> nativeForbidden, needs |-> needs]])
    /\ UNCHANGED <<selVars, mxos, symlinkJar, revision, copyVars>>

\* ------------------------------------------------- the options at start-up

\* get_jvmci_mode(): the name of the active mode.
get_jvmci_mode == _jvmciMode

\* get_jvmci_mode_args(): the VM flags of the active mode.
get_jvmci_mode_args == JVMCIMode__init__(_jvmciMode).vmArgs

\* dealiased_vm that leaves the mode as it is.
DealiasedKeepsMode(vm, mode) ==
    IF vm # None /\ vm \in DOMAIN _vmAliases
    THEN [vm |-> _vmAliases[vm], mode |-> mode]
    ELSE [vm |-> vm, mode |-> mode]

\* dealiased_vm(vm): the VM an alias stands for, and the mode that is active
\* afterwards (mode is the one active before): the aliases 'jvmci' and 'graal'
\* set JVMCIMode('jit').
dealiased_vm(vm, mode) ==
    IF vm # None /\ vm \in DOMAIN _vmAliases
    THEN [vm |-> _vmAliases[vm], mode |-> IF vm = "jvmci" \/ vm = "graal" THEN "jit" ELSE mode]
    ELSE [vm |-> vm, mode |-> mode]

\* mx_post_parse_cmd_line(opts): the options --vm, -M/--jvmci-mode and
\* --vmbuild set the selection, in this order; an option not given is None.
mx_post_parse_cmd_line(opts, sel) ==
    [vm |-> IF opts.vm # None THEN dealiased_vm(opts.vm, sel.mode).vm ELSE sel.vm,
     mode |-> IF opts.jvmci_mode # None THEN JVMCIMode__init__(opts.jvmci_mode).jvmciMode
              ELSE IF opts.vm # None THEN dealiased_vm(opts.vm, sel.mode).mode
              ELSE sel.mode,
     build |-> IF opts.vmbuild # None THEN opts.vmbuild ELSE sel.build]

\* The command line has been parsed: mx_post_parse_cmd_line runs once, before
\* any command.
PostParse(opts) ==
    /\ last.op = "init"
    /\ _vm' = mx_post_parse_cmd_line(opts, Selection).vm
    /\ _vmbuild' = mx_post_parse_cmd_line(opts, Selection).build
    /\ _jvmciMode' = mx_post_parse_cmd_line(opts, Selection).mode
    /\ initial' = mx_post_parse_cmd_line(opts, Selection)
    /\ last' = [op |-> "mx_post_parse_cmd_line", entry |-> Selection, exc |-> FALSE,
                alias |-> opts.vm \in DOMAIN _vmAliases, opts |-> opts]
    /\ UNCHANGED <<scopes, exc, fsVars, copyVars>>
\* The selection after start-up: any VM, build kind and mode the options can set.
InitSelection ==
    /\ _vm \in _vmChoices
    /\ _vmbuild \in BuildKinds
    /\ _jvmciMode \in DOMAIN _jvmciModes
    /\ scopes = <<>>
    /\ exc = FALSE
    /\ initial = Selection
    /\ last = [op |-> "init", entry |-> Selection, exc |-> FALSE, alias |-> FALSE]

InitScope ==
    /\ InitSelection
    /\ mxos = "linux"
    /\ symlinkJar = FALSE
    /\ revision = "unknown"
    /\ fs = <<>>
    /\ result = [op |-> "none", status |-> "none"]
    /\ proc = [pc |-> "none"]
    /\ seen = [t |-> "none"]

NextScope ==
    \/ \E vm \in _vmChoices \cup {None, "jvmci"}, bld \in BuildKinds \cup {None} :
           EnterVM(vm, bld)
    \/ \E mode \in DOMAIN _jvmciModes : EnterJVMCIMode(mode)
    \/ Raise
    \/ ExitVM
    \/ ExitJVMCIMode
    \/ Caught

SpecScope == InitScope /\ [][NextScope]_vars

\* The trees and distributions at start-up: the bootstrap JDK exists, no tree
\* does, and the distributions are built or not.
InitJdk ==
    /\ InitSelection
    /\ _vm = "client"
    /\ _vmbuild = "fastdebug"
    /\ _jvmciMode = "hosted"
    /\ mxos \in {"linux", "darwin", "windows"}
    /\ symlinkJar = FALSE
    /\ revision = "9d2c51a07be4"
    /\ \E c \in {<<TRUE, TRUE, TRUE>>, <<FALSE, TRUE, TRUE>>, <<TRUE, FALSE, FALSE>>},
          built \in BOOLEAN :
           fs = IF built
                THEN BuiltDists(BootstrapJdk(c[1], c[2], c[3]), _vm, _vmbuild)
                ELSE BootstrapJdk(c[1], c[2], c[3])
    /\ result = [op |-> "none", status |-> "none"]
    /\ proc = [pc |-> "none"]
    /\ seen = [t |-> "none"]

\* The calls of get_jvmci_jdk_dir explored: (build, vmToCheck, create,
\* deployDists); those of jdkhome, build and JVMCI8JDKConfig are among them.
Calls ==
    ({None, "product"} \X {None} \X BOOLEAN \X BOOLEAN)
    \cup ({None} \X {"server", "client"} \X {FALSE} \X {FALSE})

NextJdk ==
    \E c \in Calls : \E env \in EnvsOf(c[1], c[2], c[3]) :
        GetJvmciJdkDir(c[1], c[2], c[3], c[4], env)

SpecJdk == InitJdk /\ [][NextJdk]_vars

\* A tree as the creation leaves it when hsdis cannot be downloaded.
Created(f, bld) ==
    CreateTree(f, JdkDir(bld),
               [interactive |-> FALSE, answer |-> FALSE, hsdis |-> "abort",
                mxbuild |-> "ok", rev |-> revision]).fs

\* The trees at the start of the deployments: those of product and fastdebug,
\* created from the bootstrap JDK; no distribution is built yet.
InitDeploy ==
    /\ InitSelection
    /\ _vm = "client"
    /\ _vmbuild = "fastdebug"
    /\ _jvmciMode = "hosted"
    /\ mxos \in {"linux", "darwin", "windows"}
    /\ symlinkJar \in BOOLEAN
    /\ symlinkJar => mxos # "windows"
    /\ revision = "9d2c51a07be4"
    /\ fs = Created(Created(BootstrapJdk(TRUE, TRUE, TRUE), "product"), "fastdebug")
    /\ result = [op |-> "none", status |-> "none"]
    /\ proc = [pc |-> "none"]
    /\ seen = [t |-> "none"]

\* Builds of the distributions (JVMCI_API with its sources), in and out of the
\* scope VM('server', 'product').
NextDeploy ==
    \/ \E i \in DOMAIN jdkDeployedDists : DistUpdated(i, i = 2)
    \/ EnterVM("server", "product")
    \/ ExitVM

SpecDeploy == InitDeploy /\ [][NextDeploy]_vars

\* The source of the installation, another jar, and a path that names nothing.
SrcJar == <<"dists", "JVMCI_API.jar">>
OtherJar == <<"dists", "OTHER.jar">>
NoJar == <<"dists", "GONE.jar">>

\* The directory the source is installed in.
DstDir == JdkDir("product") \o targetDir(jdkDeployedDists[2])

\* What can be at the target path before the call: nothing, the jar of an
\* earlier build, a link to another file, a dangling link, a link to the source.
Targets ==
    [absent |-> <<>>,
     file |-> <<File(<<"JVMCI_API", 0>>)>>,
     other |-> <<Link(OtherJar)>>,
     dangling |-> <<Link(NoJar)>>,
     source |-> <<Link(SrcJar)>>]

\* The file system with the two jars and the target as given.
CopyFiles(target) ==
    [p \in {SrcJar, OtherJar} \cup (IF target = <<>> THEN {} ELSE {DstDir \o <<"JVMCI_API.jar">>}) |->
        IF p = SrcJar THEN File(<<"JVMCI_API", 1>>)
        ELSE IF p = OtherJar THEN File(<<"OTHER", 1>>)
        ELSE target[1]]

\* One call copyToJdk(SrcJar, DstDir) is about to be made; links exist on the
\* platforms other than Windows only.
InitCopy ==
    /\ InitSelection
    /\ _vm = "server"
    /\ _vmbuild = "product"
    /\ _jvmciMode = "hosted"
    /\ mxos \in {"linux", "darwin", "windows"}
    /\ symlinkJar \in BOOLEAN
    /\ symlinkJar => mxos # "windows"
    /\ revision = "9d2c51a07be4"
    /\ \E t \in DOMAIN Targets :
          /\ mxos = "windows" => t \in {"absent", "file"}
          /\ fs = CopyFiles(Targets[t])
          /\ proc = [pc |-> "idle", src |-> SrcJar, dst |-> DstDir,
                     dstLib |-> DstDir \o <<"JVMCI_API.jar">>, tmp |-> <<>>, k |-> 0,
                     target |-> t]
    /\ result = [op |-> "none", status |-> "none"]
    /\ seen = [t |-> "none"]

NextCopy ==
    \/ CopyToJdkSymlink
    \/ Mkstemp
    \/ CopyBlock
    \/ CopyFails
    \/ Move
    \/ Copy2Block
    \/ Unlink
    \/ Chmod
    \/ Read

SpecCopy == InitCopy /\ [][NextCopy]_vars


\* ------------------------------------------------- deployment into existing trees

\* The archive step of a build for the i-th deployed distribution, when i is
\* among the distributions S that it builds (JVMCI_API with its sources).
ArchivedIf(f, S, i) ==
    IF i \in S
    THEN Archived(f, jdkDeployedDists[i], dist(jdkDeployedDists[i], _vm, _vmbuild), 1, i = 2)
    ELSE f

\* The distribution directory after a build that archived the distributions
\* whose places in jdkDeployedDists are in S.
DistsBuilt(f, S) == ArchivedIf(ArchivedIf(ArchivedIf(ArchivedIf(f, S, 1), S, 2), S, 3), S, 4)

\* The path a jar distribution is installed at in a tree.
InstalledAt(d, jdkDir) ==
    jdkDir \o targetDir(d) \o <<dist(d, _vm, _vmbuild).path[Len(dist(d, _vm, _vmbuild).path)]>>

\* A tree in which the jar of JVMCI_API is a link left by an installation in
\* symlink mode whose target is gone (None: no tree has one).
WithStaleLink(f, bld) ==
    IF bld = None THEN f
    ELSE WriteFile(f, InstalledAt(jdkDeployedDists[2], JdkDir(bld)), Link(NoJar))

\* The trees of product and fastdebug exist, created without deployment; some
\* of the distributions are built.
InitInstall ==
    /\ InitSelection
    /\ _vm = "client"
    /\ _vmbuild = "fastdebug"
    /\ _jvmciMode = "hosted"
    /\ mxos \in {"linux", "darwin", "windows"}
    /\ symlinkJar \in BOOLEAN
    /\ symlinkJar => mxos # "windows"
    /\ revision = "9d2c51a07be4"
    /\ \E trees \in {Created(Created(BootstrapJdk(TRUE, TRUE, TRUE), "product"), "fastdebug")} :
          \E S \in SUBSET DOMAIN jdkDeployedDists, stale \in {None, "product", "fastdebug"} :
             /\ stale # None => symlinkJar
             /\ fs = WithStaleLink(DistsBuilt(trees, S), stale)
    /\ result = [op |-> "none", status |-> "none"]
    /\ proc = [pc |-> "none"]
    /\ seen = [t |-> "none"]

\* The calls of get_jvmci_jdk_dir on existing trees: (build, vmToCheck, create,
\* deployDists).
InstallCalls == {None, "product"} \X {None} \X {FALSE} \X BOOLEAN

NextInstall ==
    \E c \in InstallCalls : \E env \in EnvsOf(c[1], c[2], c[3]) :
        GetJvmciJdkDir(c[1], c[2], c[3], c[4], env)

SpecInstall == InitInstall /\ [][NextInstall]_vars

\* ------------------------------------------------- the order of deployments

\* The deployments that can be made into a tree: [i, vm] is the i-th of
\* jdkDeployedDists, the archive of the native VM being that of the variant vm
\* (for a jar vm is the active one); its file exists.
Deployments(f, abuild) ==
    {a \in [i : DOMAIN jdkDeployedDists, vm : _vmChoices] :
        /\ jdkDeployedDists[a.i].cls # "HotSpotVMJDKDeployedDist" => a.vm = _vm
        /\ exists(f, dist(jdkDeployedDists[a.i], a.vm, abuild).path)}

\* deploy(jdkDir) of a deployment after an earlier step that ended as r.
DeployAfter(r, a, jdkDir, abuild) ==
    IF r.status # "ok" THEN r
    ELSE deploy(r.fs, jdkDeployedDists[a.i], jdkDir, a.vm, abuild)

\* Two deployments into a tree, a and then b.
DeployTwo(f, a, b, jdkDir, abuild) ==
    DeployAfter(deploy(f, jdkDeployedDists[a.i], jdkDir, a.vm, abuild), b, jdkDir, abuild)

\* The trees of product and fastdebug exist, created without deployment after a
\* build of JVMCI_SERVICES and JVMCI_HOTSPOT.
InitOrder ==
    /\ InitSelection
    /\ _vm = "client"
    /\ _vmbuild = "fastdebug"
    /\ _jvmciMode = "hosted"
    /\ mxos \in {"linux", "darwin", "windows"}
    /\ symlinkJar \in BOOLEAN
    /\ symlinkJar => mxos # "windows"
    /\ revision = "9d2c51a07be4"
    /\ \E trees \in {Created(Created(BootstrapJdk(TRUE, TRUE, TRUE), "product"), "fastdebug")} :
          fs = DistsBuilt(trees, {1, 3})
    /\ result = [op |-> "none", status |-> "none"]
    /\ proc = [pc |-> "none"]
    /\ seen = [t |-> "none"]

\* Builds of JVMCI_API and of the native VM, in and out of the scope
\* VM('server'): the archives of the client and of the server VM of one build
\* kind.
NextOrder ==
    \/ DistUpdated(2, TRUE)
    \/ DistUpdated(4, FALSE)
    \/ EnterVM("server", None)
    \/ ExitVM

SpecOrder == InitOrder /\ [][NextOrder]_vars

\* ------------------------------------------------- release files

\* The pieces between the spaces of the SOURCE lines explored: component and
\* revision pairs (the component '.' twice, with two revisions), a piece
\* without ':' and the empty piece that two spaces in a row, or a space after
\* the quote, leave.
Pieces ==
    <<<<".", ":", "3f0a">>, <<"hotspot", ":", "77c1">>, <<"jvmci", ":", "old">>,
      <<".", ":", "77c1">>, <<"broken">>, <<>>>>

\* ' '.join of pieces, in tokens.
RECURSIVE JoinPieces(_)
JoinPieces(ps) ==
    IF ps = <<>> THEN <<>>
    ELSE IF Len(ps) = 1 THEN ps[1]
    ELSE ps[1] \o <<" ">> \o JoinPieces(Tail(ps))

\* The tokens SOURCE="<pieces>" of a release file.
SourceToks(pl) ==
    <<"SOURCE=", "\"">> \o JoinPieces([i \in DOMAIN pl |-> Pieces[pl[i]]]) \o <<"\"">>

\* The release files explored, by the pieces of the SOURCE line and its place:
\* between two other lines, indented and before a last line that has no
\* terminator, or itself the last line and without terminator.
ReleaseFile(pl, shape) ==
    <<Line(<<"JAVA_VERSION=", "\"", "1.8.0_141", "\"">>)>>
    \o (IF shape = "between"
        THEN <<Line(SourceToks(pl)), Line(<<"OS_NAME=", "\"", "Linux", "\"">>)>>
        ELSE IF shape = "indented"
        THEN <<Line(<<" ", " ">> \o SourceToks(pl) \o <<" ">>),
               [toks |-> <<"OS_NAME=", "\"", "Linux", "\"">>, nl |-> ""]>>
        ELSE <<[toks |-> SourceToks(pl), nl |-> ""]>>)

\* The tree of fastdebug exists, with a release file; no distribution is built.
InitRelease ==
    /\ InitSelection
    /\ _vm = "client"
    /\ _vmbuild = "fastdebug"
    /\ _jvmciMode = "hosted"
    /\ mxos \in {"linux", "windows"}
    /\ symlinkJar = FALSE
    /\ revision \in {"9d2c51a07be4", "unknown"}
    /\ \E tree \in {Created(BootstrapJdk(TRUE, TRUE, TRUE), "fastdebug")} :
          \E n \in 0..MaxPairs : \E pl \in [1..n -> DOMAIN Pieces] :
             \E shape \in {"between", "indented", "last"} :
                fs = WriteFile(tree, JdkDir("fastdebug") \o <<"release">>,
                               Text(ReleaseFile(pl, shape)))
    /\ result = [op |-> "none", status |-> "none"]
    /\ proc = [pc |-> "none"]
    /\ seen = [t |-> "none"]

\* The calls of get_jvmci_jdk_dir on the tree: (build, vmToCheck, create,
\* deployDists).
ReleaseCalls == {None} \X {None} \X {FALSE} \X BOOLEAN

NextRelease ==
    \E c \in ReleaseCalls : \E env \in EnvsOf(c[1], c[2], c[3]) :
        GetJvmciJdkDir(c[1], c[2], c[3], c[4], env)

SpecRelease == InitRelease /\ [][NextRelease]_vars

\* ------------------------------------------------- source trees

\* The output of the native build that self.newestOutput() knows of.
OutputPath == SuiteDir \o <<"build", "libjvm.so">>

\* The files of the suite explored: sources in and out of the directories
\* that are walked, and one under src/share/tools.
ShareFile == SuiteDir \o <<"src", "share", "vm", "runtime", "a.cpp">>
ToolsFile == SuiteDir \o <<"src", "share", "tools", "hsdis", "t.c">>
OsFile == SuiteDir \o <<"src", "os", "o.cpp">>
MakeFile == SuiteDir \o <<"make", "Makefile">>
GenFile == SuiteDir \o SourceDirs[3] \o <<"g.java">>
OtherFile == SuiteDir \o <<"mx.jvmci", "suite.py">>

\* A suite directory: the files of there, each written at its time; the output,
\* when it is there, was written at time 1.
SuiteTree(there, times, hasOutput) ==
    [p \in there \cup (IF hasOutput THEN {OutputPath} ELSE {}) |->
        IF p = OutputPath THEN File(<<"libjvm", 1>>) ELSE File(<<"source", times[p]>>)]

\* The suite directory as a build finds it: sources older than, as old as or
\* newer than the output, which is there or not; src/share has its tools
\* directory, as in the repository, whenever it has any file.
InitStale ==
    /\ InitSelection
    /\ _vm = "server"
    /\ _vmbuild = "product"
    /\ _jvmciMode = "hosted"
    /\ mxos = "linux"
    /\ symlinkJar = FALSE
    /\ revision = "9d2c51a07be4"
    /\ \E there \in SUBSET {ShareFile, ToolsFile, OsFile, MakeFile, GenFile, OtherFile},
          times \in [{ShareFile, OsFile, MakeFile, GenFile} -> 0..MaxTime],
          hasOutput \in BOOLEAN :
          /\ OtherFile \in there
          /\ ShareFile \in there => ToolsFile \in there
          /\ \A p \in DOMAIN times : p \notin there => times[p] = 0
          /\ fs = SuiteTree(there, [p \in there |-> IF p \in DOMAIN times THEN times[p] ELSE MaxTime],
                            hasOutput)
    /\ result = [op |-> "none", status |-> "none"]
    /\ proc = [pc |-> "none"]
    /\ seen = [t |-> "none"]

\* The calls of needsBuild: whether the generic check demands a build (a
\* forced build), what output is known, and the order of the walk.
NextStale ==
    \E super \in {<<FALSE, None>>, <<TRUE, "forced build">>},
       newestOutput \in {<<>>, <<TimeStampFile(fs, OutputPath)>>},
       order \in WalkOrders(fs) :
        NeedsBuild(super, newestOutput, order)

SpecStale == InitStale /\ [][NextStale]_vars

\* ------------------------------------------------- builds

\* Start-up for the builds: any selection, on Linux or Mac OS X.
InitBuild ==
    /\ InitSelection
    /\ mxos \in {"linux", "darwin"}
    /\ symlinkJar = FALSE
    /\ revision = "9d2c51a07be4"
    /\ fs = <<>>
    /\ result = [op |-> "none", status |-> "none"]
    /\ proc = [pc |-> "none"]
    /\ seen = [t |-> "none"]

\* The values of --vms and --builds explored; the defaults are all the VMs and
\* all the build kinds.
VmsArgs == {<<"server", "client", "original">>, <<"original">>, <<"original", "server">>}

BuildsArgs == {_vmbuildChoices, <<"product">>, <<"debug", "fastdebug">>}

NextBuild ==
    \/ \E nativeForbidden \in BOOLEAN, needs \in BOOLEAN : Build(nativeForbidden, needs)
    \/ \E vms \in VmsArgs, builds \in BuildsArgs, nativeForbidden \in BOOLEAN, needs \in BOOLEAN :
           BuildVms(vms, builds, nativeForbidden, needs)

SpecBuild == InitBuild /\ [][NextBuild]_vars

\* ------------------------------------------------- archives of the native VM

\* The entries that the archive of a native VM build may hold: the deployable
\* ones in their normal and debug-info forms, and others (a text file of the
\* build, a header under a directory of the archive).
MemberNames ==
    <<"jvmti.h", "sa-jdi.jar", _lib("jvm"), _lib_dbg("jvm"), _lib("saproc"),
      _lib_dbg("saproc"), _lib("jsig"), _lib_dbg("jsig"), "Xusage.txt", "include/jvmti.h">>

\* The entries of MemberNames at the places of S, in order.
MembersAt(S) ==
    [k \in 1..Cardinality(S) |->
        MemberNames[CHOOSE i \in S : Cardinality({j \in S : j < i}) = k - 1]]

\* The trees of product and fastdebug exist and a build of the active VM and
\* build kind has left its archive, with any of the entries.
InitExtract ==
    /\ InitSelection
    /\ _vm \in {"server", "client"}
    /\ _vmbuild \in {"product", "fastdebug"}
    /\ _jvmciMode = "hosted"
    /\ mxos \in {"linux", "darwin", "windows"}
    /\ symlinkJar = FALSE
    /\ revision = "9d2c51a07be4"
    /\ \E trees \in {Created(Created(BootstrapJdk(TRUE, TRUE, TRUE), "product"), "fastdebug")} :
          \E S \in SUBSET DOMAIN MemberNames :
             fs = WriteFile(trees, dist(jdkDeployedDists[4], _vm, _vmbuild).path,
                            Tar(dist(jdkDeployedDists[4], _vm, _vmbuild).name, 1, MembersAt(S)))
    /\ result = [op |-> "none", status |-> "none"]
    /\ proc = [pc |-> "none"]
    /\ seen = [t |-> "none"]

NextExtract == DistInstalled(4)

SpecExtract == InitExtract /\ [][NextExtract]_vars

\* ------------------------------------------------- jvm.cfg of the bootstrap JDK

\* Lines that the jvm.cfg of a bootstrap JDK may hold.
CfgLines ==
    {KnownLine("server"), <<"-client", " ", "IGNORE">>, <<"#", " ", "comment">>, <<>>}

\* The lines of a file as readlines() gives them: ended is whether the last
\* line has its terminator.
LinesRead(toks, ended) ==
    [i \in DOMAIN toks |->
        [toks |-> toks[i], nl |-> IF i = Len(toks) /\ ~ended THEN "" ELSE "\n"]]

\* The bootstrap JDK with a jvm.cfg of up to two lines, the last with or
\* without its terminator; no tree exists.
InitCfg ==
    /\ InitSelection
    /\ _vm = "server"
    /\ _vmbuild = "product"
    /\ _jvmciMode = "hosted"
    /\ mxos \in {"linux", "darwin", "windows"}
    /\ symlinkJar = FALSE
    /\ revision = "9d2c51a07be4"
    /\ \E n \in 0..2 : \E toks \in [1..n -> CfgLines], ended \in BOOLEAN :
          /\ n = 0 => ended
          /\ fs = WriteFile(BootstrapJdk(TRUE, TRUE, TRUE), getVmCfgInJdk(BootstrapHome),
                            Text(LinesRead(toks, ended)))
    /\ result = [op |-> "none", status |-> "none"]
    /\ proc = [pc |-> "none"]
    /\ seen = [t |-> "none"]

\* The calls that create the tree, with and without the check of a VM.
CfgCalls == {None} \X {None, "original", "server"} \X {TRUE} \X {FALSE}

NextCfg ==
    \E c \in CfgCalls : \E env \in EnvsOf(c[1], c[2], c[3]) :
        GetJvmciJdkDir(c[1], c[2], c[3], c[4], env)

SpecCfg == InitCfg /\ [][NextCfg]_vars

\* ------------------------------------------------- entries of the installation root

\* Entries under the installation root beside the trees: a directory that is
\* not named after a build kind, and one that is but holds no JDK.
OtherEntries == {"product.old", "debug"}

\* The file system with the directories of E under the installation root, each
\* holding one file.
WithEntries(f, E) ==
    [p \in DOMAIN f \cup {_jdksDir \o <<e, "README">> : e \in E} |->
        IF p \in DOMAIN f THEN f[p] ELSE File(<<"README", 0>>)]

\* The trees of product and fastdebug exist, with any of the other entries
\* beside them; no distribution is built yet.
InitRoot ==
    /\ InitSelection
    /\ _vm \in {"server", "client"}
    /\ _vmbuild \in {"product", "fastdebug", "debug"}
    /\ _jvmciMode = "hosted"
    /\ mxos \in {"linux", "darwin", "windows"}
    /\ symlinkJar = FALSE
    /\ revision = "9d2c51a07be4"
    /\ \E trees \in {Created(Created(BootstrapJdk(TRUE, TRUE, TRUE), "product"), "fastdebug")} :
          \E E \in SUBSET OtherEntries : fs = WithEntries(trees, E)
    /\ result = [op |-> "none", status |-> "none"]
    /\ proc = [pc |-> "none"]
    /\ seen = [t |-> "none"]

\* Builds of a jar and of the archive of the native VM.
NextRoot == DistUpdated(1, FALSE) \/ DistUpdated(4, FALSE)

SpecRoot == InitRoot /\ [][NextRoot]_vars

\* The suite directory in any layout: each of the files is there or not, so
\* that src/share may have no tools directory and a source directory may not
\* exist; the sources under src are older or newer than the output.
InitLayout ==
    /\ InitSelection
    /\ _vm = "server"
    /\ _vmbuild = "product"
    /\ _jvmciMode = "hosted"
    /\ mxos = "linux"
    /\ symlinkJar = FALSE
    /\ revision = "9d2c51a07be4"
    /\ \E there \in SUBSET {ShareFile, ToolsFile, OsFile, MakeFile, GenFile},
          t \in {0, MaxTime}, hasOutput \in BOOLEAN :
          fs = SuiteTree(there \cup {OtherFile},
                         [p \in there \cup {OtherFile} |->
                             IF p \in {ShareFile, OsFile} THEN t ELSE 0],
                         hasOutput)
    /\ result = [op |-> "none", status |-> "none"]
    /\ proc = [pc |-> "none"]
    /\ seen = [t |-> "none"]

SpecLayout == InitLayout /\ [][NextStale]_vars

\* ------------------------------------------------- start-up

\* The module is loaded: the defaults of _vm, _vmbuild and _jvmciMode.
InitStartup ==
    /\ _vm = "server"
    /\ _vmbuild = _vmbuildChoices[1]
    /\ _jvmciMode = "hosted"
    /\ scopes = <<>>
    /\ exc = FALSE
    /\ initial = Selection
    /\ last = [op |-> "init", entry |-> Selection, exc |-> FALSE, alias |-> FALSE]
    /\ mxos = "linux"
    /\ symlinkJar = FALSE
    /\ revision = "9d2c51a07be4"
    /\ fs = <<>>
    /\ result = [op |-> "none", status |-> "none"]
    /\ proc = [pc |-> "none"]
    /\ seen = [t |-> "none"]

\* The options of a command line: each given with one of its choices, or not
\* given.
Opts ==
    [vm : _vmChoices \cup DOMAIN _vmAliases \cup {None},
     jvmci_mode : DOMAIN _jvmciModes \cup {None},
     vmbuild : BuildKinds \cup {None}]

NextStartup == \E opts \in Opts : PostParse(opts)

SpecStartup == InitStartup /\ [][NextStartup]_vars
\* C1: after a VM(vm', build') scope is left, normally or by an error, and also
\* for the alias 'jvmci', the active vm, build kind and mode are the ones that
\* were active just before the scope was entered.
C1_VMScopeRestores ==
    last.op = "VM.__exit__" => Selection = last.entry

\* A VM('jvmci') scope that changed all three and was left by an error.
C1_Witness ==
    /\ last.op = "VM.__exit__"
    /\ last.alias
    /\ last.exc
    /\ scopes = <<>>
    /\ Selection = [vm |-> "client", build |-> "debug", mode |-> "disabled"]

\* C2: in a properly nested sequence of VM and JVMCIMode scopes every exit
\* re-establishes the selection of the matching entry, and with no scope left
\* the selection is the initial one.
C2_NestedScopesRestore ==
    /\ [][Len(scopes') < Len(scopes) => Selection' = Top.entry]_vars
    /\ [](scopes = <<>> => Selection = initial)

\* Two nested scopes, the inner one a JVMCIMode scope inside VM('jvmci'), both left.
C2_Witness ==
    /\ last.op = "VM.__exit__"
    /\ last.alias
    /\ ~last.exc
    /\ scopes = <<>>
    /\ initial = [vm |-> "original", build |-> "optimized", mode |-> "hosted"]
    /\ Selection = initial


\* C3: a call get_jvmci_jdk_dir(build, create=True) that follows a completed
\* call with the same arguments completes, returns the same path and leaves
\* the file system as the first call left it: jvm.cfg gets no second
\* '-original KNOWN' line, nothing is moved or copied again.
C3_CreateTwiceIsOnce ==
    [][(result'.op = "get_jvmci_jdk_dir" /\ result'.repeat /\ result'.args.create)
          => /\ result'.status = "ok"
             /\ result'.value = result.value
             /\ fs' = fs]_vars

\* The second of two create calls with deployment has completed: the tree has
\* one '-original KNOWN' line, its 'original' directory and a deployed jar.
C3_Witness ==
    /\ result.op = "get_jvmci_jdk_dir"
    /\ result.repeat
    /\ result.args.create
    /\ result.args.deployDists
    /\ result.status = "ok"
    /\ KnownLines(fs, result.value, "original") = 1
    /\ exists(fs, vmLibDirInJdk(result.value) \o <<"original">>)
    /\ exists(fs, result.value \o <<"jre", "lib", "jvmci", "JVMCI_API.jar">>)

\* C4 as stated: when the tree of the requested build kind exists, the call
\* (for either value of create) returns its path and leaves every file of the
\* tree unchanged.
C4_ExistingTreeUnchanged ==
    [][(result'.op = "get_jvmci_jdk_dir" /\ exists(fs, JdkDir(result'.args.build)))
          => /\ result'.status = "ok"
             /\ result'.value = JdkDir(result'.args.build)
             /\ TreeOf(fs', JdkDir(result'.args.build))
                  = TreeOf(fs, JdkDir(result'.args.build))]_vars

\* C4 (amended): when the tree of the requested build kind exists, a call with
\* deployDists false, and with no VM to check or one that the jvm.cfg of the
\* tree declares KNOWN, returns the path of the tree and changes no file, for
\* either value of create.
C4_ExistingTreeUnchangedWithoutDeploy ==
    [][(/\ result'.op = "get_jvmci_jdk_dir"
        /\ exists(fs, JdkDir(result'.args.build))
        /\ ~result'.args.deployDists
        /\ \/ result'.args.vmToCheck = None
           \/ /\ exists(fs, getVmCfgInJdk(JdkDir(result'.args.build)))
              /\ VmKnown(fs, JdkDir(result'.args.build), result'.args.vmToCheck))
          => /\ result'.status = "ok"
             /\ result'.value = JdkDir(result'.args.build)
             /\ fs' = fs]_vars

\* A call without deployment that checked the VM 'server' has returned the path
\* of a tree that the call before had already returned.
C4_Witness ==
    /\ result.op = "get_jvmci_jdk_dir"
    /\ result.repeat
    /\ ~result.args.deployDists
    /\ result.args.vmToCheck = "server"
    /\ result.status = "ok"
    /\ result.value = JdkDir(result.args.build)
    /\ exists(fs, result.value)

\* C5 as stated: when the tree does not exist and create is false, the call
\* returns no path and the tree is not created; the VM is reported missing, and
\* in a non-interactive session the process aborts naming the VM (the active
\* one when none was given) and the build kind.
C5_MissingTreeNotCreated ==
    [][(/\ result'.op = "get_jvmci_jdk_dir"
        /\ ~result'.args.create
        /\ ~exists(fs, JdkDir(result'.args.build)))
          => /\ result'.status # "ok"
             /\ result'.value = <<>>
             /\ ~exists(fs', JdkDir(result'.args.build))
             /\ ~result'.args.interactive =>
                   /\ result'.status = "abort"
                   /\ result'.msg =
                        <<"You need to run", "mx",
                          "--vm=" \o (IF result'.args.vmToCheck = None THEN _vm
                                      ELSE result'.args.vmToCheck),
                          "--vmbuild=" \o result'.args.build, "build",
                          "to build the selected VM">>]_vars

\* C5 (amended): when the tree does not exist and create is false, the VM (the
\* active one when none was given) and the build kind are handed to the
\* missing-VM handling. Unless the session is interactive and the user accepts
\* the build, the process aborts with a message naming both, no path is
\* returned and no file is changed; when the user accepts, the build creates
\* the tree and a call that completes returns its path.
C5_MissingTreeAbortsOrIsBuilt ==
    [][(/\ result'.op = "get_jvmci_jdk_dir"
        /\ ~result'.args.create
        /\ ~exists(fs, JdkDir(result'.args.build)))
          => IF result'.args.interactive /\ result'.args.answer
             THEN result'.status = "ok" =>
                     /\ exists(fs', JdkDir(result'.args.build))
                     /\ result'.value = JdkDir(result'.args.build)
             ELSE /\ result'.status = "abort"
                  /\ result'.msg =
                       <<"You need to run", "mx",
                         "--vm=" \o (IF result'.args.vmToCheck = None THEN _vm
                                     ELSE result'.args.vmToCheck),
                         "--vmbuild=" \o result'.args.build, "build",
                         "to build the selected VM">>
                  /\ result'.value = <<>>
                  /\ fs' = fs]_vars

\* A call without create and without a VM to check has aborted in a
\* non-interactive session, naming the active VM; the tree does not exist.
C5_Witness ==
    /\ result.op = "get_jvmci_jdk_dir"
    /\ ~result.args.create
    /\ result.args.vmToCheck = None
    /\ ~result.args.interactive
    /\ result.status = "abort"
    /\ result.msg[3] = "--vm=" \o _vm
    /\ result.msg[4] = "--vmbuild=" \o result.args.build
    /\ ~exists(fs, JdkDir(result.args.build))

\* C6: with no tree under the installation root and a bootstrap JDK whose
\* jvm.cfg declares '-server KNOWN', a call get_jvmci_jdk_dir('product',
\* create=True) that returns leaves a tree with an 'original' and a 'server' VM
\* library directory and a jvm.cfg with '-server KNOWN' and '-original KNOWN'.
C6_OriginalAndServerDirs ==
    [][(/\ result'.op = "get_jvmci_jdk_dir"
        /\ result'.args.build = "product"
        /\ result'.args.create
        /\ ~lexists(fs, _jdksDir)
        /\ exists(fs, getVmCfgInJdk(BootstrapHome))
        /\ VmKnown(fs, BootstrapHome, "server")
        /\ result'.status = "ok")
          => /\ exists(fs', vmLibDirInJdk(JdkDir("product")) \o <<"original">>)
             /\ exists(fs', vmLibDirInJdk(JdkDir("product")) \o <<"server">>)
             /\ VmKnown(fs', JdkDir("product"), "server")
             /\ VmKnown(fs', JdkDir("product"), "original")]_vars

\* C7: when the tree cloned by a call has no jvm.cfg at the place the platform
\* expects it, the process aborts with a message naming that file, and the
\* tree is left as the clone of the bootstrap JDK: no '-original KNOWN' line is
\* written and the directory of the default VM is not moved.
C7_AbortsBeforeTheTreeIsChanged ==
    [][(/\ result'.op = "get_jvmci_jdk_dir"
        /\ ~exists(fs, JdkDir(result'.args.build))
        /\ exists(fs', JdkDir(result'.args.build))
        /\ ~exists(fs', getVmCfgInJdk(JdkDir(result'.args.build))))
          => /\ result'.status = "abort"
             /\ result'.msg = getVmCfgInJdk(JdkDir(result'.args.build)) \o <<"does not exist">>
             /\ fs' = copytree(fs, StripContentsHome(BootstrapHome),
                               StripContentsHome(JdkDir(result'.args.build)))
             /\ ~exists(fs', vmLibDirInJdk(JdkDir(result'.args.build)) \o <<"original">>)]_vars

\* On Windows a create call has aborted naming jre/lib/<arch>/jvm.cfg; the
\* cloned tree still has its 'server' directory.
C7_Witness ==
    /\ mxos = "windows"
    /\ result.op = "get_jvmci_jdk_dir"
    /\ result.args.create
    /\ result.status = "abort"
    /\ result.msg = JdkDir(result.args.build) \o <<"jre", "lib", arch, "jvm.cfg", "does not exist">>
    /\ exists(fs, JdkDir(result.args.build) \o <<"jre", "bin", "server">>)

\* C8 as stated: in copy mode the content at the target path changes only by
\* the one rename of the temporary file, made in the same directory and
\* holding the whole source, onto the target; a reader of the target path
\* reads the previous content, nothing or the new content, never a part.
C8_CopyModeIsAtomic ==
    [][(proc.pc # "none" /\ ~symlinkJar)
          => /\ seen'.t # "partial"
             /\ Content(fs', proc.dstLib) # Content(fs, proc.dstLib)
                  => /\ proc.pc = "move"
                     /\ SubSeq(proc.tmp, 1, Len(proc.tmp) - 1) = proc.dst
                     /\ fs[proc.tmp] = Content(fs, proc.src)
                     /\ fs' = rename(fs, proc.tmp, proc.dstLib)]_vars

\* C8 (amended): on the platforms other than Windows, and on Windows when
\* nothing is at the target path, the content at the target path changes only
\* by the one rename of the complete temporary file of the same directory, and
\* a reader never reads a partial file. (On Windows, with a file at the target
\* path, the rename fails and the content is copied onto the target.)
C8_CopyModeIsAtomicWhereRenameReplaces ==
    [][(proc.pc # "none" /\ ~symlinkJar /\ (mxos # "windows" \/ proc.target = "absent"))
          => /\ seen'.t # "partial"
             /\ Content(fs', proc.dstLib) # Content(fs, proc.dstLib)
                  => /\ proc.pc = "move"
                     /\ SubSeq(proc.tmp, 1, Len(proc.tmp) - 1) = proc.dst
                     /\ fs[proc.tmp] = Content(fs, proc.src)
                     /\ fs' = rename(fs, proc.tmp, proc.dstLib)]_vars

\* On Linux the jar of an earlier build has been replaced by the rename, the
\* temporary file is gone and the reader has read the new content.
C8_Witness ==
    /\ mxos = "linux"
    /\ ~symlinkJar
    /\ proc.pc = "chmod"
    /\ proc.target = "file"
    /\ proc.tmp \notin DOMAIN fs
    /\ fs[proc.dstLib] = File(<<"JVMCI_API", 1>>)
    /\ seen = File(<<"JVMCI_API", 1>>)

\* C9: in symlink mode, whatever is at the target path before (nothing, a
\* regular file, a link to another file, a dangling link, a link to the
\* source), the call completes and the target is a link that resolves to the
\* source; a link that did so before is left as it is.
C9_SymlinkModeLeavesLink ==
    [][(proc.pc = "idle" /\ symlinkJar /\ proc'.pc = "done")
          => /\ result'.status = "ok"
             /\ islink(fs', proc.dstLib)
             /\ realpath(fs', proc.dstLib) = proc.src
             /\ (islink(fs, proc.dstLib) /\ realpath(fs, proc.dstLib) = proc.src) => fs' = fs]_vars

\* C10: the deployment of the archive of the native VM, with build kind B1
\* active, does nothing in the tree of any other build kind B2: it changes no
\* file of that tree and raises no error, and it does not open the archive (it
\* completes as well when there is no archive file to open).
C10_OtherBuildKindIsSkipped ==
    /\ [][(/\ result'.op = "_installDistInJdks"
           /\ result'.args.dist = "JVM_<vmbuild>_<vm>")
             => /\ result'.status = "ok"
                /\ \A b \in BuildKinds \ {_vmbuild} :
                       TreeOf(fs', JdkDir(b)) = TreeOf(fs, JdkDir(b))]_vars
    /\ [](\A b \in BuildKinds \ {_vmbuild} :
              deploy(RemoveFile(fs, dist(jdkDeployedDists[4], _vm, _vmbuild).path),
                     jdkDeployedDists[4], JdkDir(b), _vm, _vmbuild)
                = Ok(RemoveFile(fs, dist(jdkDeployedDists[4], _vm, _vmbuild).path)))

\* The archive of the product server VM has been deployed in the scope
\* VM('server', 'product'): the product tree has its jvm library, the
\* fastdebug tree has no 'server' directory.
C10_Witness ==
    /\ result.op = "_installDistInJdks"
    /\ result.args.dist = "JVM_<vmbuild>_<vm>"
    /\ result.status = "ok"
    /\ _vmbuild = "product"
    /\ _vm = "server"
    /\ exists(fs, vmLibDirInJdk(JdkDir("product")) \o <<"server", _lib("jvm")>>)
    /\ exists(fs, JdkDir("fastdebug"))
    /\ ~exists(fs, vmLibDirInJdk(JdkDir("fastdebug")) \o <<"server">>)

\* C11: after a call of get_jvmci_jdk_dir with deployDists that completes,
\* every jar distribution whose file existed is installed in every tree under
\* the installation root, whatever build kind was requested: the file at its
\* target directory has the name and the content of the source. A distribution
\* whose file does not exist is skipped: its place in the trees is left as it
\* was and no call fails for the missing file.
C11_JarsInEveryTree ==
    [][(result'.op = "get_jvmci_jdk_dir" /\ result'.args.deployDists)
          => /\ result'.msg # <<"IOError: No such file or directory">>
             /\ result'.status = "ok" =>
                  \A i \in 1..3 : \A e \in listdir(fs', _jdksDir) :
                     IF exists(fs, dist(jdkDeployedDists[i], _vm, _vmbuild).path)
                     THEN /\ exists(fs', InstalledAt(jdkDeployedDists[i], _jdkDir(_jdksDir, e)))
                          /\ Content(fs', InstalledAt(jdkDeployedDists[i], _jdkDir(_jdksDir, e)))
                               = Content(fs, dist(jdkDeployedDists[i], _vm, _vmbuild).path)
                     ELSE TreeOf(fs', InstalledAt(jdkDeployedDists[i], _jdkDir(_jdksDir, e)))
                            = TreeOf(fs, InstalledAt(jdkDeployedDists[i], _jdkDir(_jdksDir, e)))]_vars

\* A call for the product tree has installed JVMCI_API, with its sources, in
\* the tree of fastdebug as well; JVMCI_HOTSPOT, which is not built, is in
\* neither tree.
C11_Witness ==
    /\ result.op = "get_jvmci_jdk_dir"
    /\ result.args.deployDists
    /\ result.args.build = "product"
    /\ result.status = "ok"
    /\ Content(fs, InstalledAt(jdkDeployedDists[2], JdkDir("fastdebug")))
         = File(<<"JVMCI_API", 1>>)
    /\ exists(fs, JdkDir("fastdebug") \o <<"jre", "lib", "jvmci", "JVMCI_API.src.zip">>)
    /\ exists(fs, InstalledAt(jdkDeployedDists[2], JdkDir("product")))
    /\ ~exists(fs, dist(jdkDeployedDists[3], _vm, _vmbuild).path)
    /\ ~lexists(fs, InstalledAt(jdkDeployedDists[3], JdkDir("fastdebug")))
    /\ ~lexists(fs, InstalledAt(jdkDeployedDists[3], JdkDir("product")))

\* C12: when the installation of one distribution fails during the deployment
\* of a call, the other distributions whose files exist (and that can be
\* installed in every tree) are installed in the trees all the same.
C12_FailureDoesNotStopDeployment ==
    [][(/\ result'.op = "get_jvmci_jdk_dir"
        /\ result'.args.deployDists
        /\ exists(fs, JdkDir(result'.args.build))
        /\ result'.status = "error")
          => \A i \in 1..3 :
                (/\ exists(fs, dist(jdkDeployedDists[i], _vm, _vmbuild).path)
                 /\ \A e \in listdir(fs, _jdksDir) :
                       deploy(fs, jdkDeployedDists[i], _jdkDir(_jdksDir, e), _vm, _vmbuild).status
                         = "ok")
                  => \A e \in listdir(fs, _jdksDir) :
                        /\ exists(fs', InstalledAt(jdkDeployedDists[i], _jdkDir(_jdksDir, e)))
                        /\ Content(fs', InstalledAt(jdkDeployedDists[i], _jdkDir(_jdksDir, e)))
                             = Content(fs, dist(jdkDeployedDists[i], _vm, _vmbuild).path)]_vars

\* C14: a call that completes and installs distributions in the trees leaves
\* the 'release' file of every tree under the installation root patched, and
\* creates none in a tree that has none.
C14_ReleasePatchedInEveryTree ==
    [][(/\ result'.op = "get_jvmci_jdk_dir"
        /\ result'.args.deployDists
        /\ result'.status = "ok"
        /\ \E i \in 1..3 : exists(fs, dist(jdkDeployedDists[i], _vm, _vmbuild).path))
          => \A e \in listdir(fs', _jdksDir) :
                TreeOf(fs', _jdkDir(_jdksDir, e) \o <<"release">>)
                  = TreeOf(PatchRelease(fs, _jdkDir(_jdksDir, e), revision),
                           _jdkDir(_jdksDir, e) \o <<"release">>)]_vars

\* C13 as stated: the content of a tree does not depend on the order of two
\* deployments into it, whether of jars or of archives of the native VM of any
\* variant for the build kind of the tree.
C13_OrderDoesNotMatter ==
    \A a, b \in Deployments(fs, _vmbuild) :
        DeployTwo(fs, a, b, JdkDir(_vmbuild), _vmbuild)
          = DeployTwo(fs, b, a, JdkDir(_vmbuild), _vmbuild)

\* C13 (amended): two deployments into a tree of which at most one is an
\* archive of the native VM leave the same tree in either order. Two archives
\* of different VM variants leave the same files, and the same directory of
\* each VM, in either order; they differ only in the members that every
\* archive has (jvmti.h, sa-jdi.jar, the saproc and jsig libraries), which are
\* those of the archive deployed last.
C13_OrderMattersOnlyForSharedMembers ==
    \A a, b \in Deployments(fs, _vmbuild) :
        IF /\ jdkDeployedDists[a.i].cls = "HotSpotVMJDKDeployedDist"
           /\ jdkDeployedDists[b.i].cls = "HotSpotVMJDKDeployedDist"
           /\ a # b
        THEN LET ab == DeployTwo(fs, a, b, JdkDir(_vmbuild), _vmbuild)
                 ba == DeployTwo(fs, b, a, JdkDir(_vmbuild), _vmbuild)
             IN  /\ ab.status = "ok" /\ ba.status = "ok"
                 /\ DOMAIN ab.fs = DOMAIN ba.fs
                 /\ \A vm \in _vmChoices :
                       TreeOf(ab.fs, vmLibDirInJdk(JdkDir(_vmbuild)) \o <<vm>>)
                         = TreeOf(ba.fs, vmLibDirInJdk(JdkDir(_vmbuild)) \o <<vm>>)
                 /\ \A p \in DOMAIN ab.fs :
                       ab.fs[p] # ba.fs[p]
                         => /\ p[Len(p)] \in {"jvmti.h", "sa-jdi.jar"} \cup LibNames
                            /\ ab.fs[p] = deploy(fs, jdkDeployedDists[b.i], JdkDir(_vmbuild),
                                                 b.vm, _vmbuild).fs[p]
                            /\ ba.fs[p] = deploy(fs, jdkDeployedDists[a.i], JdkDir(_vmbuild),
                                                 a.vm, _vmbuild).fs[p]
        ELSE DeployTwo(fs, a, b, JdkDir(_vmbuild), _vmbuild)
               = DeployTwo(fs, b, a, JdkDir(_vmbuild), _vmbuild)

\* The archives of the client and of the server VM of fastdebug are built, the
\* jars as well; the server's was deployed last, into a tree that has the
\* library of either VM and the jar of JVMCI_API.
C13_Witness ==
    /\ result.op = "_installDistInJdks"
    /\ result.args.dist = "JVM_<vmbuild>_<vm>"
    /\ result.status = "ok"
    /\ _vm = "server"
    /\ [i |-> 4, vm |-> "client"] \in Deployments(fs, _vmbuild)
    /\ [i |-> 4, vm |-> "server"] \in Deployments(fs, _vmbuild)
    /\ [i |-> 2, vm |-> "server"] \in Deployments(fs, _vmbuild)
    /\ [i |-> 3, vm |-> "server"] \in Deployments(fs, _vmbuild)
    /\ exists(fs, vmLibDirInJdk(JdkDir("fastdebug")) \o <<"client", _lib("jvm")>>)
    /\ exists(fs, vmLibDirInJdk(JdkDir("fastdebug")) \o <<"server", _lib("jvm")>>)
    /\ exists(fs, InstalledAt(jdkDeployedDists[2], JdkDir("fastdebug")))
    /\ fs[vmLibDirInJdk(JdkDir("fastdebug")) \o <<_lib("saproc")>>]
         # DeployTwo(fs, [i |-> 4, vm |-> "server"], [i |-> 4, vm |-> "client"],
                     JdkDir("fastdebug"), "fastdebug").fs[
               vmLibDirInJdk(JdkDir("fastdebug")) \o <<_lib("saproc")>>]

\* C15 as stated: the patch of a release file writes, for every line
\* SOURCE="<pairs>" whose pieces are component:revision pairs, the line
\* SOURCE=" <pairs>" with the pairs of the line in their order, less the pairs
\* of 'hotspot', the pair of 'jvmci' set to the current revision where it is,
\* or added last when there is none; every other line is written as it was and
\* in its place.
C15_SourceLineRewritten ==
    [][(/\ result'.op = "get_jvmci_jdk_dir"
        /\ result'.args.deployDists
        /\ result'.status = "ok"
        /\ exists(fs, JdkDir(result'.args.build) \o <<"release">>))
          => LET NonEmpty(p) == p # <<>>
                 PairOf(p) == [k |-> SubSeq(p, 1, index(p) - 1),
                               v |-> SubSeq(p, index(p) + 1, Len(p))]
                 NotHotspot(x) == x.k # <<"hotspot">>
                 SetJvmci(P) ==
                     IF \E i \in DOMAIN P : P[i].k = <<"jvmci">>
                     THEN [i \in DOMAIN P |->
                              IF P[i].k = <<"jvmci">>
                              THEN [k |-> <<"jvmci">>, v |-> <<revision>>] ELSE P[i]]
                     ELSE Append(P, [k |-> <<"jvmci">>, v |-> <<revision>>])
             IN  \A old \in {fs[JdkDir(result'.args.build) \o <<"release">>].data},
                    new \in {fs'[JdkDir(result'.args.build) \o <<"release">>].data} :
                   /\ Len(new) = Len(old)
                   /\ \A i \in DOMAIN old : \A t \in {strip(old[i])} :
                         IF ~IsSourceLine(t) THEN new[i] = old[i]
                         ELSE \A ps \in {SelectSeq(split(SubSeq(t, 3, Len(t) - 1)), NonEmpty)} :
                                 (\A j \in DOMAIN ps : index(ps[j]) # 0)
                                   => \A P \in {[j \in DOMAIN ps |-> PairOf(ps[j])]} :
                                         new[i].toks
                                           = <<"SOURCE=", "\"", " ">>
                                             \o JoinPairs(SetJvmci(SelectSeq(P, NotHotspot)))
                                             \o <<"\"">>]_vars

\* C15 (amended): as C15, the pairs of the line being taken as a mapping: a
\* component named more than once has one pair in the line written, at the
\* place of its first pair and with the revision of its last.
C15_SourceLineRewrittenAsMapping ==
    [][(/\ result'.op = "get_jvmci_jdk_dir"
        /\ result'.args.deployDists
        /\ result'.status = "ok"
        /\ exists(fs, JdkDir(result'.args.build) \o <<"release">>))
          => LET NonEmpty(p) == p # <<>>
                 PairOf(p) == [k |-> SubSeq(p, 1, index(p) - 1),
                               v |-> SubSeq(p, index(p) + 1, Len(p))]
                 LastOf(P, i) ==
                     CHOOSE j \in DOMAIN P :
                         P[j].k = P[i].k /\ \A m \in DOMAIN P : m > j => P[m].k # P[i].k
                 IsFirst(x) == x.first
                 NotHotspot(x) == x.k # <<"hotspot">>
                 SetJvmci(P) ==
                     IF \E i \in DOMAIN P : P[i].k = <<"jvmci">>
                     THEN [i \in DOMAIN P |->
                              IF P[i].k = <<"jvmci">>
                              THEN [k |-> <<"jvmci">>, v |-> <<revision>>] ELSE P[i]]
                     ELSE Append(P, [k |-> <<"jvmci">>, v |-> <<revision>>])
             IN  \A old \in {fs[JdkDir(result'.args.build) \o <<"release">>].data},
                    new \in {fs'[JdkDir(result'.args.build) \o <<"release">>].data} :
                   /\ Len(new) = Len(old)
                   /\ \A i \in DOMAIN old : \A t \in {strip(old[i])} :
                         IF ~IsSourceLine(t) THEN new[i] = old[i]
                         ELSE \A ps \in {SelectSeq(split(SubSeq(t, 3, Len(t) - 1)), NonEmpty)} :
                                 (\A j \in DOMAIN ps : index(ps[j]) # 0)
                                   => \A P \in {[j \in DOMAIN ps |-> PairOf(ps[j])]} :
                                      \A M \in {SelectSeq(
                                                   [j \in DOMAIN P |->
                                                       [k |-> P[j].k, v |-> P[LastOf(P, j)].v,
                                                        first |-> \A m \in 1..(j - 1) :
                                                                     P[m].k # P[j].k]],
                                                   IsFirst)} :
                                         new[i].toks
                                           = <<"SOURCE=", "\"", " ">>
                                             \o JoinPairs(SetJvmci(SelectSeq(
                                                    [j \in DOMAIN M |-> [k |-> M[j].k, v |-> M[j].v]],
                                                    NotHotspot)))
                                             \o <<"\"">>]_vars

\* The release file of the tree has been patched: the pair of 'jvmci' that
\* came first has the current revision, the pair of 'hotspot' is gone, and the
\* lines around, the last one without terminator, are as they were.
C15_Witness ==
    /\ result.op = "get_jvmci_jdk_dir"
    /\ result.args.deployDists
    /\ result.status = "ok"
    /\ revision = "9d2c51a07be4"
    /\ fs[JdkDir("fastdebug") \o <<"release">>].data
         = <<Line(<<"JAVA_VERSION=", "\"", "1.8.0_141", "\"">>),
             [toks |-> <<"SOURCE=", "\"", " ", "jvmci", ":", "9d2c51a07be4", " ",
                         ".", ":", "3f0a", "\"">>,
              nl |-> linesep],
             [toks |-> <<"OS_NAME=", "\"", "Linux", "\"">>, nl |-> ""]>>

\* C16: when a SOURCE line of the release file has a piece that does not parse
\* (it has no ':'), the patch writes the line as it was, a warning is given
\* for it, the lines after it are written and the call completes.
C16_UnparsedLineKept ==
    [][(/\ result'.op = "get_jvmci_jdk_dir"
        /\ result'.args.deployDists
        /\ exists(fs, JdkDir(result'.args.build) \o <<"release">>))
          => LET NoColon(p) == p # <<>> /\ \A k \in DOMAIN p : p[k] # ":"
             IN  \A old \in {fs[JdkDir(result'.args.build) \o <<"release">>].data},
                    new \in {fs'[JdkDir(result'.args.build) \o <<"release">>].data} :
                   \A bad \in {{i \in DOMAIN old :
                                  /\ IsSourceLine(strip(old[i]))
                                  /\ SelectSeq(split(SubSeq(strip(old[i]), 3,
                                                            Len(strip(old[i])) - 1)),
                                               NoColon) # <<>>}} :
                      bad # {}
                        => /\ result'.status = "ok"
                           /\ Len(result'.msg) = Cardinality(bad)
                           /\ Len(new) = Len(old)
                           /\ \A i \in bad : new[i] = old[i]
                           /\ \A i \in DOMAIN old \ bad :
                                 ~IsSourceLine(strip(old[i])) => new[i] = old[i]]_vars

\* A call has completed with one warning; the indented SOURCE line with the
\* piece 'broken' is in the file as it was, and so is the line after it.
C16_Witness ==
    /\ result.op = "get_jvmci_jdk_dir"
    /\ result.args.deployDists
    /\ result.status = "ok"
    /\ Len(result.msg) = 1
    /\ fs[JdkDir("fastdebug") \o <<"release">>].data
         = <<Line(<<"JAVA_VERSION=", "\"", "1.8.0_141", "\"">>),
             Line(<<" ", " ", "SOURCE=", "\"", " ", ".", ":", "3f0a", " ", "broken", "\"", " ">>),
             [toks |-> <<"OS_NAME=", "\"", "Linux", "\"">>, nl |-> ""]>>

\* C17: when newestOutput() of the native build task reports no output,
\* needsBuild reports that a rebuild is needed, whatever the modification
\* times of the sources.
C17_NoOutputNeedsBuild ==
    [][(result'.op = "needsBuild" /\ result'.args.newestOutput = <<>>)
          => (result'.status = "ok" /\ result'.value[1] = TRUE)]_vars

\* C18: when an output is known but its path does not exist, needsBuild
\* reports that a rebuild is needed for every content of the source
\* directories, also when they hold no files.
C18_MissingOutputNeedsBuild ==
    [][(/\ result'.op = "needsBuild"
        /\ result'.args.newestOutput # <<>>
        /\ ~exists(fs, OutputPath))
          => (result'.status = "ok" /\ result'.value[1] = TRUE)]_vars

\* The files of the source directories, outside src/share/tools, written
\* after the output.
C19_NewerSources ==
    {p \in DOMAIN fs :
        /\ \E i \in DOMAIN SourceDirs : IsPrefix(SuiteDir \o SourceDirs[i], p)
        /\ ~IsPrefix(SuiteDir \o <<"src", "share", "tools">>, p)
        /\ fs[p].data[2] > fs[OutputPath].data[2]}

\* C19: when the known output exists and the generic check demands no build,
\* needsBuild reports a rebuild exactly when some file under src, make or
\* jvmci/jdk.vm.ci.hotspot/src_gen/hotspot outside src/share/tools is strictly
\* newer than the output, and names the first such file of the walk; it
\* reports none otherwise, also when only files under src/share/tools are newer.
C19_RebuildIffNewerSource ==
    [][(/\ result'.op = "needsBuild"
        /\ result'.args.newestOutput # <<>>
        /\ exists(fs, OutputPath)
        /\ ~result'.args.super[1])
          => /\ result'.status = "ok"
             /\ IF C19_NewerSources = {} THEN result'.value = <<FALSE, None>>
                ELSE \E i \in DOMAIN result'.args.order :
                        /\ result'.args.order[i] \in C19_NewerSources
                        /\ \A j \in 1..(i - 1) : result'.args.order[j] \notin C19_NewerSources
                        /\ result'.value =
                              <<TRUE, <<result'.args.order[i], "is newer than", OutputPath>>>>]_vars

\* A rebuild is reported for src/os/o.cpp, met first, while a file under
\* src/share and the one under src/share/tools are newer as well.
C19_Witness ==
    /\ result.op = "needsBuild"
    /\ result.status = "ok"
    /\ result.args.newestOutput # <<>>
    /\ ~result.args.super[1]
    /\ exists(fs, OutputPath)
    /\ {OsFile, ShareFile} \subseteq C19_NewerSources
    /\ ToolsFile \in DOMAIN fs
    /\ result.value = <<TRUE, <<OsFile, "is newer than", OutputPath>>>>

\* C20: the original VM is never built: in every build kind the build task
\* of the original VM is forbidden, so the native build is not invoked, and
\* buildvms starts no build of the original VM in a build kind other than
\* product.
C20_OriginalNeverBuilt ==
    [][/\ (result'.op = "build" /\ result'.value.vm = "original")
             => (result'.value.forbidden /\ ~result'.value.native)
       /\ result'.op = "buildvms"
             => \A k \in DOMAIN result'.value :
                   result'.value[k].vm = "original"
                      => /\ result'.value[k].vmbuild = "product"
                         /\ result'.value[k].forbidden
                         /\ ~result'.value[k].native]_vars

\* buildvms for the original and the server VM in all build kinds: the one
\* build started for the original VM is the product build, with the native
\* build forbidden, while the server VM is built in debug.
C20_Witness ==
    /\ result.op = "buildvms"
    /\ result.args.vms = <<"original", "server">>
    /\ result.args.builds = _vmbuildChoices
    /\ ~result.args.nativeForbidden
    /\ result.args.needs
    /\ Len(result.value) = 5
    /\ result.value[1].vm = "original"
    /\ result.value[1].vmbuild = "product"
    /\ result.value[1].forbidden
    /\ \E k \in DOMAIN result.value :
          /\ result.value[k].vm = "server"
          /\ result.value[k].vmbuild = "debug"
          /\ result.value[k].native

\* C21: a failure to obtain or install the disassembler library at the
\* creation of a tree (no library for the platform, download failure, failure
\* of the copy into the tree) is swallowed: the call of
\* get_jvmci_jdk_dir(create=True) that wrote jvm.cfg of the new tree
\* completes, and the tree has its '-original KNOWN' line and its 'original'
\* directory.
C21_HsdisFailureSwallowed ==
    [][(/\ result'.op = "get_jvmci_jdk_dir"
        /\ result'.args.create
        /\ result'.args.vmToCheck = None
        /\ ~exists(fs, JdkDir(result'.args.build))
        /\ exists(fs', getVmCfgInJdk(JdkDir(result'.args.build)))
        /\ VmKnown(fs', JdkDir(result'.args.build), "original"))
          => /\ result'.status = "ok"
             /\ exists(fs', vmLibDirInJdk(JdkDir(result'.args.build)) \o <<"original">>)]_vars

\* C22: the deployment of the archive of the native VM into the tree of the
\* active build kind extracts exactly the entries named in the table: the jvm
\* library (normal and debug-info form) into <vm-library-dir>/<active vm>,
\* those of saproc and jsig into <vm-library-dir>, jvmti.h into 'include' and
\* sa-jdi.jar into 'lib'; every other entry is ignored, and nothing else
\* changes.
C22_TableEntriesExtracted ==
    [][(/\ result'.op = "_installDistInJdks"
        /\ result'.args.dist = "JVM_<vmbuild>_<vm>"
        /\ exists(fs, JdkDir(_vmbuild))
        /\ exists(fs, dist(jdkDeployedDists[4], _vm, _vmbuild).path))
          => LET Into(m) ==
                     IF m \in {_lib("jvm"), _lib_dbg("jvm")}
                     THEN vmLibDirInJdk(JdkDir(_vmbuild)) \o <<_vm, m>>
                     ELSE IF m \in {_lib("saproc"), _lib_dbg("saproc"),
                                    _lib("jsig"), _lib_dbg("jsig")}
                     THEN vmLibDirInJdk(JdkDir(_vmbuild)) \o <<m>>
                     ELSE IF m = "jvmti.h" THEN JdkDir(_vmbuild) \o <<"include", m>>
                     ELSE JdkDir(_vmbuild) \o <<"lib", m>>
                 Table == {"jvmti.h", "sa-jdi.jar", _lib("jvm"), _lib_dbg("jvm"),
                           _lib("saproc"), _lib_dbg("saproc"), _lib("jsig"), _lib_dbg("jsig")}
             IN \A tar \in {fs[dist(jdkDeployedDists[4], _vm, _vmbuild).path]} :
                \A names \in {{tar.data[3][i] : i \in DOMAIN tar.data[3]} \cap Table} :
                   /\ result'.status = "ok"
                   /\ DOMAIN fs' = DOMAIN fs \cup {Into(m) : m \in names}
                   /\ \A m \in names :
                         fs'[Into(m)] = File(<<tar.data[1] \o ":" \o m, tar.data[2]>>)
                   /\ \A p \in DOMAIN fs : p \notin {Into(m) : m \in names} => fs'[p] = fs[p]]_vars

\* An archive with the jvm library, the debug-info form of jsig and two
\* entries that are not in the table has been deployed: the library is in the
\* directory of the active VM, jsig beside the VM directories, and the tree
\* has none of the other entries.
C22_Witness ==
    /\ result.op = "_installDistInJdks"
    /\ result.status = "ok"
    /\ _vm = "client"
    /\ fs[dist(jdkDeployedDists[4], _vm, _vmbuild).path].data[3]
          = <<_lib("jvm"), _lib_dbg("jsig"), "Xusage.txt", "include/jvmti.h">>
    /\ exists(fs, vmLibDirInJdk(JdkDir(_vmbuild)) \o <<"client", _lib("jvm")>>)
    /\ exists(fs, vmLibDirInJdk(JdkDir(_vmbuild)) \o <<_lib_dbg("jsig")>>)
    /\ \A p \in Under(fs, JdkDir(_vmbuild)) :
          p[Len(p)] \notin {"Xusage.txt", "include/jvmti.h", "jvmti.h"}

\* C23: whenever a call get_jvmci_jdk_dir(create=True) returns, the tree it
\* returns is fully built: its jvm.cfg has the line '-original KNOWN' and its
\* 'original' VM directory exists; a tree left half-built by a failed creation
\* is not returned by a later call as if it were complete.
C23_ReturnedTreeIsBuilt ==
    [][(/\ result'.op = "get_jvmci_jdk_dir"
        /\ result'.args.create
        /\ result'.status = "ok")
          => /\ exists(fs', getVmCfgInJdk(JdkDir(result'.args.build)))
             /\ VmKnown(fs', JdkDir(result'.args.build), "original")
             /\ exists(fs', vmLibDirInJdk(JdkDir(result'.args.build)) \o <<"original">>)]_vars

\* C24: for every content of the jvm.cfg of the bootstrap JDK, also one whose
\* last line has no terminator, the jvm.cfg of a newly created tree is the
\* lines of the bootstrap file unchanged, followed by a line of its own that
\* is '-original KNOWN', so that the look-up of the VM 'original' finds it.
C24_OriginalLineOfItsOwn ==
    [][(/\ result'.op = "get_jvmci_jdk_dir"
        /\ result'.args.create
        /\ ~exists(fs, JdkDir(result'.args.build))
        /\ exists(fs', getVmCfgInJdk(JdkDir(result'.args.build))))
          => /\ Len(fs'[getVmCfgInJdk(JdkDir(result'.args.build))].data)
                   = Len(fs[getVmCfgInJdk(BootstrapHome)].data) + 1
             /\ \A i \in DOMAIN fs[getVmCfgInJdk(BootstrapHome)].data :
                   fs'[getVmCfgInJdk(JdkDir(result'.args.build))].data[i].toks
                      = fs[getVmCfgInJdk(BootstrapHome)].data[i].toks
             /\ VmKnown(fs', JdkDir(result'.args.build), "original")
             /\ result'.args.vmToCheck = "original" => result'.status # "abort"]_vars

\* C25: after any sequence of VM scopes entered and left and of deployments,
\* for every build kind B and VM V of server and client, the jvm library
\* under <vm-library-dir>/V of the tree of B was extracted from the archive
\* built for B and V: no deployment places there a library built for another
\* build kind or another VM.
C25_LibraryOfItsBuildAndVm ==
    \A B \in BuildKinds : \A V \in {"server", "client"} :
        vmLibDirInJdk(JdkDir(B)) \o <<V, _lib("jvm")>> \in DOMAIN fs
           => fs[vmLibDirInJdk(JdkDir(B)) \o <<V, _lib("jvm")>>].data[1]
                 = "JVM_" \o B \o "_" \o V \o ":" \o _lib("jvm")

\* The archives of two builds have been deployed, one of them in a VM scope:
\* the tree of fastdebug has the library of the client VM and the tree of
\* product that of the server VM.
C25_Witness ==
    /\ scopes = <<>>
    /\ vmLibDirInJdk(JdkDir("fastdebug")) \o <<"client", _lib("jvm")>> \in DOMAIN fs
    /\ vmLibDirInJdk(JdkDir("product")) \o <<"server", _lib("jvm")>> \in DOMAIN fs
    /\ fs[vmLibDirInJdk(JdkDir("product")) \o <<"server", _lib("jvm")>>].data[1]
          = "JVM_product_server:" \o _lib("jvm")

\* C26: the assertion of _vmbuildFromJdkDir, that the build kind derived from
\* the path of a tree is one of product, fastdebug, debug and optimized, holds
\* for every directory that _installDistInJdks passes to a deployment,
\* whatever entries the installation root has, also entries that are not
\* named after a build kind.
C26_AssertionHolds ==
    [][result'.op = "_installDistInJdks"
          => result'.msg # <<"AssertionError: The vmbuild derived is unknown">>]_vars

\* C27: needsBuild always returns a decision, a pair of a boolean and a
\* reason, and never fails, for every layout of the source tree, also one
\* whose src/share has no tools directory and one whose source directories do
\* not exist.
C27_AlwaysDecides ==
    [][result'.op = "needsBuild"
          => /\ result'.status = "ok"
             /\ Len(result'.value) = 2
             /\ result'.value[1] \in BOOLEAN]_vars

\* C28: the patch of the 'release' file is idempotent for a fixed revision: a
\* second patch with the same revision leaves every line as the first patch
\* left it, the SOURCE line with its single leading space and the place of
\* its 'jvmci' pair included.
C28_PatchTwiceIsOnce ==
    /\ [][(/\ result.op = "get_jvmci_jdk_dir"
           /\ result.status = "ok"
           /\ result.args.deployDists
           /\ result'.op = "get_jvmci_jdk_dir"
           /\ result'.status = "ok"
           /\ result'.args.deployDists
           /\ result'.args.build = result.args.build)
             => fs'[JdkDir(result'.args.build) \o <<"release">>]
                   = fs[JdkDir(result'.args.build) \o <<"release">>]]_vars
    /\ [](\A once \in {PatchRelease(fs, JdkDir(_vmbuild), revision)} :
             PatchRelease(once, JdkDir(_vmbuild), revision) = once)

\* The release file has been patched twice; its SOURCE line, read with the
\* pairs 'jvmci:old .:3f0a', has the jvmci pair at its place with the
\* revision, after one space.
C28_Witness ==
    /\ result.op = "get_jvmci_jdk_dir"
    /\ result.repeat
    /\ result.args.deployDists
    /\ result.status = "ok"
    /\ revision = "9d2c51a07be4"
    /\ fs[JdkDir("fastdebug") \o <<"release">>].data[2].toks
          = <<"SOURCE=", "\"", " ", "jvmci", ":", "9d2c51a07be4", " ", ".", ":", "3f0a", "\"">>

\* C29: after a call of copyToJdk in copy mode has ended, completed or failed
\* while the source was copied, the target directory holds no temporary file
\* of the installation, and after a failed call a target file installed before
\* has the content it had.
C29_NoTemporaryFileLeft ==
    (~symlinkJar /\ proc.pc \in {"done", "failed"})
       => /\ listdir(fs, proc.dst) \subseteq {proc.dstLib[Len(proc.dstLib)]}
          /\ proc.pc = "failed"
                => IF Targets[proc.target] = <<>> THEN ~lexists(fs, proc.dstLib)
                   ELSE /\ lexists(fs, proc.dstLib)
                        /\ fs[proc.dstLib] = Targets[proc.target][1]

\* C30: at start-up an alias ('jvmci' or 'graal') given with --vm selects the
\* VM 'server' and the mode 'jit', and an option -M always decides the mode:
\* with an alias and -M the mode is that of -M, with neither it stays
\* 'hosted'; in every case one mode is active, and get_jvmci_mode_args returns
\* its flags.
C30_ModeAfterStartup ==
    last.op = "mx_post_parse_cmd_line"
       => /\ last.opts.vm \in {"jvmci", "graal"}
                => /\ _vm = "server"
                   /\ last.opts.jvmci_mode = None => _jvmciMode = "jit"
          /\ last.opts.jvmci_mode # None => _jvmciMode = last.opts.jvmci_mode
          /\ (last.opts.vm \notin {"jvmci", "graal"} /\ last.opts.jvmci_mode = None)
                => _jvmciMode = "hosted"
          /\ get_jvmci_mode \in DOMAIN _jvmciModes
          /\ get_jvmci_mode_args = _jvmciModes[get_jvmci_mode]

\* The command line '--vm graal -M disabled' has been parsed: the VM is
\* server and the mode is disabled.
C30_Witness ==
    /\ last.op = "mx_post_parse_cmd_line"
    /\ last.opts.vm = "graal"
    /\ last.opts.jvmci_mode = "disabled"
    /\ _vm = "server"
    /\ _jvmciMode = "disabled"
    /\ get_jvmci_mode_args = <<"-XX:+UnlockExperimentalVMOptions", "-XX:-EnableJVMCI">>

====
